---- MODULE Spec2Model ----
(***************************************************************************)
(* A model of the gorc2 client library (key-value items, events and the   *)
(* pagination Iterator) together with the Orchestrate service it talks to. *)
(*                                                                         *)
(* Strings that the code takes apart are modelled by what the code sees:   *)
(*   - a Location / Content-Location value is the sequence                 *)
(*     strings.Split(value, "/"); the absent header (Header.Get gives "")  *)
(*     is <<"">>, a value without any "/" is a one-element sequence;       *)
(*   - an Etag / If-Match value is the sequence strings.Split(value, `"`); *)
(*   - a request path is the sequence of its "/"-separated segments and    *)
(*     the query string a function from parameter names to values.         *)
(* Numbers that travel as text are formatted with Itoa and parsed with     *)
(* Atoi, refs are the texts RefStr(n).                                     *)
(***************************************************************************)
EXTENDS Integers, Sequences, FiniteSets, TLC

VARIABLES
    kv,       \* service: key -> history of revisions, the last one is current
    events,   \* service: the events stored, records [key, typ, ts, ord, ref, value]
    nextRef,  \* service: number of the next ref it hands out
    last,     \* caller: the library call that has just returned (NoCall in between)
    it,       \* the Iterator under observation (NoIterator before construction)
    opts,     \* the arguments of the call that constructed the Iterator
    fetches,  \* the HTTP requests the Iterator has issued: what the transport did to each
    yielded,  \* the elements the Iterator was positioned on after Next returned true
    stops,    \* how many times Next has returned false
    srv,      \* service: how it cuts a listing into pages
    wire,     \* transport: how replies end, and the reply of an intermediary
              \* that answers in place of the service (Nil when there is none)
    apiHost,  \* Client.APIHost of the proxy's client
    px,       \* proxy: the state of each request handler
    thr,      \* the goroutines that call Next on the one Iterator
    clients,  \* the Clients that were constructed, and the requests they sent
    links     \* service: the relations stored, triples <<from, kind, to>>

vars == <<kv, events, nextRef, last, it, opts, fetches, yielded, stops, srv,
          wire, apiHost, px, thr, clients, links>>

-----------------------------------------------------------------------------
(* Bounds of the model *)

MaxRef == 2      \* refs the service hands out in one behaviour
MaxTs == 2       \* listed events have timestamps 1..MaxTs milliseconds
MaxOrd == 1      \* listed events have ordinals 0..MaxOrd
MaxLimit == 2    \* page sizes asked for are 0 (unset) .. MaxLimit
MaxStops == 2    \* calls of Next answered with false that are followed
MaxMsOff == 2    \* converted timestamps lie within MaxMsOff ms of a whole second
                 \* and of the last millisecond an int64 of nanoseconds holds
MaxInt64 == 1073741823   \* the largest int64, scaled from 2^63 - 1 to 2^30 - 1
MaxRequests == 3 \* requests the Clients of a process send
MaxLinked == 3   \* relations the service stores at one time

KeySeq == <<"k1", "k2">>      \* the keys in the order the service lists them
Keys == {KeySeq[i] : i \in 1..Len(KeySeq)}
CollName == "c"
EvType == "type1"
GoVals == {[typ |-> "int", n |-> 1], [typ |-> "int", n |-> 2]}
BadValue == [typ |-> "jsonMarshalError", n |-> 0]
Dests == {"nil", "int", "jsonUnmarshalError"}

-----------------------------------------------------------------------------
(* Text <-> number conversions (fmt.Sprintf("%d"), strconv.Itoa / ParseInt) *)

NumStr == <<"0", "1", "2", "3", "4", "5", "6", "7", "8", "9", "10", "11", "12">>
Itoa(n) == NumStr[n + 1]
IsNum(s) == \E i \in 1..Len(NumStr) : NumStr[i] = s
Atoi(s) == (CHOOSE i \in 1..Len(NumStr) : NumStr[i] = s) - 1

RefTab == <<"r1", "r2", "r3", "r4", "r5", "r6", "r7", "r8", "r9", "r10", "r11", "r12",
           "r13", "r14", "r15", "r16", "r17", "r18", "r19", "r20", "r21", "r22">>
RefStr(n) == RefTab[n]

Last(s) == s[Len(s)]
NoHeader == <<"">>

Nil == [nil |-> TRUE]
Bool(b) == [bool |-> b]     \* a Go bool among the values a call returns
\* An error value: its type, the string it holds, and for an UnknownError
\* StatusCode (code), Status (line) and Message (arg).
NoErr == [kind |-> "nil", arg |-> "", code |-> 0, line |-> ""]
Err(kind, arg) == [kind |-> kind, arg |-> arg, code |-> 0, line |-> ""]
NoVal == [typ |-> "none", n |-> 0]

-----------------------------------------------------------------------------
(* json.Marshal / json.Unmarshal on the abstract Go values *)

Marshal(v) ==
    IF v = BadValue THEN [err |-> Err("Local", "JSON MARSHAL ERROR"), raw |-> ""]
    ELSE [err |-> NoErr, raw |-> Itoa(v.n)]

Unmarshal(raw, dest) ==
    IF dest = "jsonUnmarshalError" \/ ~IsNum(raw)
    THEN [err |-> Err("Local", "JSON UNMARSHAL ERROR"), val |-> NoVal]
    ELSE [err |-> NoErr, val |-> [typ |-> dest, n |-> Atoi(raw)]]

-----------------------------------------------------------------------------
(* time.Time: an instant is [ns |-> nanoseconds since the epoch]; the zero   *)
(* time.Time of an unset query field is DefaultTime.                          *)

NsPerMs == 1000000
MsPerSec == 1000
NsPerSec == MsPerSec * NsPerMs

DefaultTime == [zero |-> TRUE]
Time(n) == [ns |-> n]

\* Go's integer division and remainder truncate toward zero.
GoDiv(a, b) == IF a >= 0 THEN a \div b ELSE -((-a) \div b)
GoMod(a, b) == a - b * GoDiv(a, b)

\* t.UnixNano(): the nanoseconds since the epoch as an int64. A time.Time
\* reaches further than an int64 of nanoseconds does; past its limits the
\* value wraps around.
UnixNano(t) ==
    IF t.ns > MaxInt64 THEN (t.ns - MaxInt64 - 1) - MaxInt64 - 1
    ELSE IF t.ns < 0 - MaxInt64 - 1 THEN (t.ns + MaxInt64 + 1) + MaxInt64 + 1
    ELSE t.ns

\* t.UnixNano()/1000000
UnixMs(t) == GoDiv(UnixNano(t), NsPerMs)
\* time.Unix(ms/1000, (ms%1000)*1000000)
TimeOfMs(ms) == Time(GoDiv(ms, MsPerSec) * NsPerSec + GoMod(ms, MsPerSec) * NsPerMs)

-----------------------------------------------------------------------------
(* The Orchestrate service: optimistic concurrency on server-assigned refs.  *)

\* resp.Status for the status codes that occur
StatusLine(status) ==
    CASE status = 200 -> "200 OK"
      [] status = 201 -> "201 Created"
      [] status = 202 -> "202 Accepted"
      [] status = 204 -> "204 No Content"
      [] status = 404 -> "404 Not Found"
      [] status = 405 -> "405 Method Not Allowed"
      [] status = 412 -> "412 Precondition Failed"
      [] status = 419 -> "419 Rate Limited"
      [] status = 500 -> "500 Internal Server Error"
      [] OTHER -> ""

NoResp == [status |-> 0, line |-> "", Location |-> NoHeader, Etag |-> NoHeader,
           ContentLocation |-> NoHeader, body |-> ""]
Resp(status, body) ==
    [NoResp EXCEPT !.status = status, !.line = StatusLine(status), !.body = body]

NoReq == [method |-> "", path |-> <<>>, query |-> {},
          IfMatch |-> NoHeader, IfNoneMatch |-> NoHeader, body |-> ""]

SrvState == [kv |-> kv, events |-> events, nextRef |-> nextRef, links |-> links]

Live(st, k) == st.kv[k] # <<>> /\ ~Last(st.kv[k]).tomb
CurrentRef(st, k) == IF st.kv[k] = <<>> THEN "" ELSE Last(st.kv[k]).ref

KvLocation(k, ref) == <<"", "v0", CollName, k, "refs", ref>>
EvLocation(k, typ, ts, ord) ==
    <<"", "v0", CollName, k, "events", typ, Itoa(ts), Itoa(ord)>>
Quoted(s) == <<"", s, "">>

\* If-Match: the quoted ref must be the ref of the most recent revision.
IfMatchFails(req, cur) ==
    req.IfMatch # NoHeader /\ (Len(req.IfMatch) # 3 \/ cur = "" \/ req.IfMatch[2] # cur)

Purging(req) == <<"purge", <<"true">>>> \in req.query

SrvPutKv(st, req, k) ==
    IF (req.IfNoneMatch # NoHeader /\ Live(st, k)) \/ IfMatchFails(req, CurrentRef(st, k))
    THEN [resp |-> Resp(412, ""), st |-> st]
    ELSE LET ref == RefStr(st.nextRef)
             rev == [ref |-> ref, value |-> req.body, tomb |-> FALSE]
         IN [resp |-> [Resp(201, "") EXCEPT !.Location = KvLocation(k, ref),
                                            !.Etag = Quoted(ref)],
             st |-> [st EXCEPT !.kv[k] = Append(@, rev), !.nextRef = @ + 1]]

SrvDeleteKv(st, req, k) ==
    IF IfMatchFails(req, CurrentRef(st, k))
    THEN [resp |-> Resp(412, ""), st |-> st]
    ELSE IF Purging(req)
    THEN [resp |-> Resp(204, ""),
          st |-> [st EXCEPT !.kv[k] = <<>>,
                            !.events = {e \in @ : e.key # k}]]
    ELSE IF Live(st, k)
    THEN LET rev == [ref |-> RefStr(st.nextRef), value |-> "", tomb |-> TRUE]
         IN [resp |-> Resp(204, ""),
             st |-> [st EXCEPT !.kv[k] = Append(@, rev), !.nextRef = @ + 1]]
    ELSE [resp |-> Resp(204, ""), st |-> st]

SrvGetKv(st, k) ==
    IF Live(st, k)
    THEN [resp |-> [Resp(200, Last(st.kv[k]).value)
                       EXCEPT !.ContentLocation = KvLocation(k, CurrentRef(st, k))],
          st |-> st]
    ELSE [resp |-> Resp(404, ""), st |-> st]

SrvGetKvRef(st, k, ref) ==
    LET revs == {i \in 1..Len(st.kv[k]) : st.kv[k][i].ref = ref /\ ~st.kv[k][i].tomb}
    IN IF revs # {}
       THEN [resp |-> Resp(200, st.kv[k][CHOOSE i \in revs : TRUE].value), st |-> st]
       ELSE [resp |-> Resp(404, ""), st |-> st]

EventsAt(st, k, typ, ts, ord) ==
    {e \in st.events : e.key = k /\ e.typ = typ /\ e.ts = ts /\ e.ord = ord}

FreeOrd(st, k, typ, ts) ==
    CHOOSE o \in 0..Cardinality(st.events) :
        /\ EventsAt(st, k, typ, ts, o) = {}
        /\ \A p \in 0..(o - 1) : EventsAt(st, k, typ, ts, p) # {}

EvReply(status, e) ==
    [Resp(status, "") EXCEPT !.Location = EvLocation(e.key, e.typ, e.ts, e.ord),
                             !.Etag = Quoted(e.ref)]

\* POST .../events/<type>[/<ms>]: `now` is the service's clock, used when the
\* caller names no timestamp.
SrvPostEvent(st, req, k, typ, now) ==
    LET ts == IF Len(req.path) = 5 THEN Atoi(req.path[5]) ELSE now
        e == [key |-> k, typ |-> typ, ts |-> ts, ord |-> FreeOrd(st, k, typ, ts),
              ref |-> RefStr(st.nextRef), value |-> req.body]
    IN [resp |-> EvReply(201, e),
        st |-> [st EXCEPT !.events = @ \cup {e}, !.nextRef = @ + 1]]

SrvPutEvent(st, req, k, typ, ts, ord) ==
    LET old == EventsAt(st, k, typ, ts, ord) IN
    IF old = {} THEN [resp |-> Resp(404, ""), st |-> st]
    ELSE LET o == CHOOSE x \in old : TRUE
             e == [o EXCEPT !.ref = RefStr(st.nextRef), !.value = req.body]
         IN IF IfMatchFails(req, o.ref)
            THEN [resp |-> Resp(412, ""), st |-> st]
            ELSE [resp |-> EvReply(204, e),
                  st |-> [st EXCEPT !.events = (@ \ old) \cup {e}, !.nextRef = @ + 1]]

SrvDeleteEvent(st, req, k, typ, ts, ord) ==
    LET old == EventsAt(st, k, typ, ts, ord)
        cur == IF old = {} THEN "" ELSE (CHOOSE x \in old : TRUE).ref
    IN IF IfMatchFails(req, cur)
       THEN [resp |-> Resp(412, ""), st |-> st]
       ELSE [resp |-> Resp(204, ""), st |-> [st EXCEPT !.events = @ \ old]]

SrvGetEvent(st, k, typ, ts, ord) ==
    LET old == EventsAt(st, k, typ, ts, ord) IN
    IF old = {} THEN [resp |-> Resp(404, ""), st |-> st]
    ELSE LET e == CHOOSE x \in old : TRUE
         IN [resp |-> Resp(200, [Ordinal |-> e.ord, PathRef |-> e.ref,
                                 Timestamp |-> e.ts, Value |-> e.value]),
             st |-> st]

-----------------------------------------------------------------------------
(* Listings of the service: a page of results and the URL of the next page.  *)
(* A URL is [v0, path, query]; v0 says that it starts with "/v0/"; the empty  *)
(* string is EmptyUrl. A query parameter is <<name, value>>, the value being  *)
(* the sequence of its "/"-separated parts.                                   *)

SrvDefaultLimit == 10

EmptyUrl == [v0 |-> FALSE, path |-> <<>>, query |-> {}]
Url(path, query) == [v0 |-> FALSE, path |-> path, query |-> query]

HasParam(q, name) == \E p \in q : p[1] = name
Param(q, name) == (CHOOSE p \in q : p[1] = name)[2]
SetParam(q, name, val) == {p \in q : p[1] # name} \cup {<<name, val>>}

KeyIdx(k) == CHOOSE i \in 1..Len(KeySeq) : KeySeq[i] = k
IsKey(s) == \E i \in 1..Len(KeySeq) : KeySeq[i] = s

\* (ts, ord) of an event against a boundary <<ms>> or <<ms, ord>>; a boundary
\* without ordinal lies before every event of its millisecond, except for
\* endEvent, where it lies after them.
EvCmp(e, b, noOrdIsLow) ==
    LET ms == Atoi(b[1]) IN
    IF e.ts # ms THEN (IF e.ts < ms THEN -1 ELSE 1)
    ELSE IF Len(b) = 1 THEN (IF noOrdIsLow THEN 1 ELSE -1)
    ELSE LET o == Atoi(b[2]) IN IF e.ord < o THEN -1 ELSE IF e.ord > o THEN 1 ELSE 0

EvMatches(e, q) ==
    /\ HasParam(q, "afterEvent") => EvCmp(e, Param(q, "afterEvent"), TRUE) > 0
    /\ HasParam(q, "beforeEvent") => EvCmp(e, Param(q, "beforeEvent"), TRUE) < 0
    /\ HasParam(q, "startEvent") => EvCmp(e, Param(q, "startEvent"), TRUE) >= 0
    /\ HasParam(q, "endEvent") => EvCmp(e, Param(q, "endEvent"), FALSE) <= 0

KeyMatches(k, q) ==
    /\ HasParam(q, "afterKey") => KeyIdx(k) > KeyIdx(Param(q, "afterKey")[1])
    /\ HasParam(q, "beforeKey") => KeyIdx(k) < KeyIdx(Param(q, "beforeKey")[1])
    /\ HasParam(q, "startKey") => KeyIdx(k) >= KeyIdx(Param(q, "startKey")[1])
    /\ HasParam(q, "endKey") => KeyIdx(k) <= KeyIdx(Param(q, "endKey")[1])

EvBefore(a, b) == a.ts < b.ts \/ (a.ts = b.ts /\ a.ord < b.ord)

\* Events are listed newest first.
RECURSIVE NewestFirst(_)
NewestFirst(S) ==
    IF S = {} THEN <<>>
    ELSE LET m == CHOOSE x \in S : \A y \in S \ {x} : EvBefore(y, x)
         IN <<m>> \o NewestFirst(S \ {m})

\* Keys are listed in ascending order.
RECURSIVE KeysAscending(_, _)
KeysAscending(S, i) ==
    IF i > Len(KeySeq) THEN <<>>
    ELSE (IF KeySeq[i] \in S THEN <<KeySeq[i]>> ELSE <<>>) \o KeysAscending(S, i + 1)

Take(s, n) == SubSeq(s, 1, IF n < Len(s) THEN n ELSE Len(s))

NoListItem == [Collection |-> "", Key |-> "", Ref |-> "", Tombstone |-> FALSE,
               Type |-> "", Ordinal |-> 0, Timestamp |-> 0, RefTime |-> 0, Value |-> ""]

KvListItem(st, k) ==
    [NoListItem EXCEPT !.Collection = CollName, !.Key = k,
                       !.Ref = CurrentRef(st, k), !.Value = Last(st.kv[k]).value]

EvListItem(e) ==
    [NoListItem EXCEPT !.Collection = CollName, !.Key = e.key, !.Ref = e.ref,
                       !.Type = e.typ, !.Ordinal = e.ord, !.Timestamp = e.ts,
                       !.Value = e.value]

PageLimit(q) == IF HasParam(q, "limit") THEN Atoi(Param(q, "limit")[1]) ELSE SrvDefaultLimit

\* Whether the page carries a "next" URL depends on the service: only while
\* further results remain ("more"), whenever the page is full ("full"), or on
\* every page ("always").
GivesNext(policy, pageLen, limit, remaining) ==
    \/ policy = "more" /\ remaining > 0
    \/ policy = "full" /\ pageLen = limit
    \/ policy = "always"

SrvListKv(st, req, policy) ==
    LET all == KeysAscending({k \in Keys : Live(st, k) /\ KeyMatches(k, req.query)}, 1)
        page == Take(all, PageLimit(req.query))
        nextQ == IF page = <<>> THEN req.query
                 ELSE SetParam(req.query, "afterKey", <<Last(page)>>)
    IN [resp |-> Resp(200,
            [Next |-> IF GivesNext(policy, Len(page), PageLimit(req.query),
                                   Len(all) - Len(page))
                      THEN [Url(req.path, nextQ) EXCEPT !.v0 = TRUE] ELSE EmptyUrl,
             Results |-> [i \in 1..Len(page) |-> KvListItem(st, page[i])]]),
        st |-> st]

SrvListEvents(st, req, k, typ, policy) ==
    LET all == NewestFirst({e \in st.events :
                               e.key = k /\ e.typ = typ /\ EvMatches(e, req.query)})
        page == Take(all, PageLimit(req.query))
        nextQ == IF page = <<>> THEN req.query
                 ELSE SetParam(req.query, "beforeEvent",
                               <<Itoa(Last(page).ts), Itoa(Last(page).ord)>>)
    IN [resp |-> Resp(200,
            [Next |-> IF GivesNext(policy, Len(page), PageLimit(req.query),
                                   Len(all) - Len(page))
                      THEN [Url(req.path, nextQ) EXCEPT !.v0 = TRUE] ELSE EmptyUrl,
             Results |-> [i \in 1..Len(page) |-> EvListItem(page[i])]]),
        st |-> st]

\* A search with the query "*" finds every live key; its pages are cut by
\* offset and limit.
SrvSearch(st, req, policy) ==
    LET all == KeysAscending({k \in Keys : Live(st, k)}, 1)
        off == IF HasParam(req.query, "offset") THEN Atoi(Param(req.query, "offset")[1])
               ELSE 0
        page == Take(SubSeq(all, off + 1, Len(all)), PageLimit(req.query))
        nextQ == SetParam(req.query, "offset", <<Itoa(off + Len(page))>>)
    IN [resp |-> Resp(200,
            [Next |-> IF GivesNext(policy, Len(page), PageLimit(req.query),
                                   Len(all) - off - Len(page))
                      THEN [Url(req.path, nextQ) EXCEPT !.v0 = TRUE] ELSE EmptyUrl,
             Results |-> [i \in 1..Len(page) |-> KvListItem(st, page[i])]]),
        st |-> st]

\* Relations. A relation leads from one item to another under a kind; the
\* traversal of a list of kinds follows them in order, one hop per kind, and
\* gives the items the last hop arrives at.
RECURSIVE Reached(_, _, _)
Reached(st, from, kinds) ==
    IF kinds = <<>> THEN from
    ELSE Reached(st, {l[3] : l \in {x \in st.links : x[1] \in from /\ x[2] = kinds[1]}},
                 Tail(kinds))

SrvPutRelation(st, k, kind, to) ==
    [resp |-> Resp(204, ""), st |-> [st EXCEPT !.links = @ \cup {<<k, kind, to>>}]]

SrvDeleteRelation(st, req, k, kind, to) ==
    IF Purging(req)
    THEN [resp |-> Resp(204, ""), st |-> [st EXCEPT !.links = @ \ {<<k, kind, to>>}]]
    ELSE [resp |-> Resp(400, ""), st |-> st]

SrvGetRelations(st, req, k, kinds, policy) ==
    LET all == KeysAscending({x \in Reached(st, {k}, kinds) : Live(st, x)}, 1)
        off == IF HasParam(req.query, "offset") THEN Atoi(Param(req.query, "offset")[1])
               ELSE 0
        page == Take(SubSeq(all, off + 1, Len(all)), PageLimit(req.query))
        nextQ == SetParam(req.query, "offset", <<Itoa(off + Len(page))>>)
    IN [resp |-> Resp(200,
            [Next |-> IF GivesNext(policy, Len(page), PageLimit(req.query),
                                   Len(all) - off - Len(page))
                      THEN [Url(req.path, nextQ) EXCEPT !.v0 = TRUE] ELSE EmptyUrl,
             Results |-> [i \in 1..Len(page) |-> KvListItem(st, page[i])]]),
        st |-> st]

\* The service's answer to one request, and its state afterwards.
SrvReply(st, req, now, policy) ==
    LET p == req.path
        n == Len(p)
        isEv == n >= 4 /\ p[1] = CollName /\ IsKey(p[2]) /\ p[3] = "events"
        isEvAt == isEv /\ n = 6 /\ IsNum(p[5]) /\ IsNum(p[6])
        isRel == n >= 4 /\ p[1] = CollName /\ IsKey(p[2])
    IN
    IF n = 1 /\ p[1] = CollName /\ req.method = "GET" /\ HasParam(req.query, "query")
        THEN SrvSearch(st, req, policy)
    ELSE IF n = 1 /\ p[1] = CollName /\ req.method = "GET"
        THEN SrvListKv(st, req, policy)
    ELSE IF n = 2 /\ p[1] = CollName /\ IsKey(p[2]) THEN
        CASE req.method = "PUT" -> SrvPutKv(st, req, p[2])
          [] req.method = "DELETE" -> SrvDeleteKv(st, req, p[2])
          [] req.method = "GET" -> SrvGetKv(st, p[2])
          [] OTHER -> [resp |-> Resp(405, ""), st |-> st]
    ELSE IF n = 4 /\ p[1] = CollName /\ IsKey(p[2]) /\ p[3] = "refs" /\ req.method = "GET"
        THEN SrvGetKvRef(st, p[2], p[4])
    ELSE IF isRel /\ n = 6 /\ p[3] = "relation" /\ p[5] = CollName /\ IsKey(p[6]) THEN
        CASE req.method = "PUT" -> SrvPutRelation(st, p[2], p[4], p[6])
          [] req.method = "DELETE" -> SrvDeleteRelation(st, req, p[2], p[4], p[6])
          [] OTHER -> [resp |-> Resp(405, ""), st |-> st]
    ELSE IF isRel /\ p[3] = "relations" /\ req.method = "GET"
        THEN SrvGetRelations(st, req, p[2], SubSeq(p, 4, n), policy)
    ELSE IF isEv /\ n = 4 /\ req.method = "GET"
        THEN SrvListEvents(st, req, p[2], p[4], policy)
    ELSE IF isEv /\ req.method = "POST" /\ (n = 4 \/ (n = 5 /\ IsNum(p[5])))
        THEN SrvPostEvent(st, req, p[2], p[4], now)
    ELSE IF isEvAt THEN
        CASE req.method = "PUT" ->
                SrvPutEvent(st, req, p[2], p[4], Atoi(p[5]), Atoi(p[6]))
          [] req.method = "DELETE" ->
                SrvDeleteEvent(st, req, p[2], p[4], Atoi(p[5]), Atoi(p[6]))
          [] req.method = "GET" ->
                SrvGetEvent(st, p[2], p[4], Atoi(p[5]), Atoi(p[6]))
          [] OTHER -> [resp |-> Resp(405, ""), st |-> st]
    ELSE [resp |-> Resp(404, ""), st |-> st]

-----------------------------------------------------------------------------
(* Transport: Client.doRequest, emptyReply, jsonReply and the error          *)
(* classifier. `fault` is what the round tripper under the client does to    *)
(* the exchange: nothing, a failed dial, or a change to the reply.           *)

\* The bodies an intermediary answers with: none, text that is no JSON, a
\* JSON object without and with a "message" field.
TextBody == "XXX"
ObjectBody == "{}"
MessageBody == "{\"message\":\"oops\"}"
WireBodies == {"", TextBody, ObjectBody, MessageBody}

Tamper(resp, fault) ==
    CASE fault = "delLocation" -> [resp EXCEPT !.Location = NoHeader]
      [] fault = "badLocation" -> [resp EXCEPT !.Location = <<"XXX">>]
      [] fault = "trailingSlash" -> [resp EXCEPT !.Location = @ \o <<"">>]
      [] fault = "badTimestamp" /\ Len(resp.Location) = 8 ->
            [resp EXCEPT !.Location[7] = "XXX"]
      [] fault = "badOrdinal" /\ Len(resp.Location) = 8 ->
            [resp EXCEPT !.Location[8] = "XXX"]
      [] fault = "delEtag" -> [resp EXCEPT !.Etag = NoHeader]
      [] fault = "badEtag" -> [resp EXCEPT !.Etag = <<"XXX">>]
      [] fault = "delContentLocation" -> [resp EXCEPT !.ContentLocation = NoHeader]
      [] fault = "badStatus" ->
            [resp EXCEPT !.status = 500, !.line = StatusLine(500), !.body = MessageBody]
      [] fault = "noValue" /\ resp.status = 200 ->
            [resp EXCEPT !.body.Results = [j \in DOMAIN @ |-> [@[j] EXCEPT !.Value = ""]]]
      [] OTHER -> resp

NoWire == [eof |-> TRUE, reply |-> Nil]

DefaultAPIHost == "api.cl1.orchestrate.io"

\* The reply of the intermediary as the client receives it. When it carries
\* headers, they are those of a reply recorded for an event.
WireResp ==
    IF wire.reply.headers
    THEN [NoResp EXCEPT !.status = wire.reply.status, !.line = wire.reply.line,
                        !.body = wire.reply.body,
                        !.Location = EvLocation("k1", EvType, 1, 0),
                        !.Etag = Quoted(RefStr(1)),
                        !.ContentLocation = KvLocation("k1", RefStr(1))]
    ELSE [NoResp EXCEPT !.status = wire.reply.status, !.line = wire.reply.line,
                        !.body = wire.reply.body]

doRequest(req, fault, now) ==
    LET Do(r) == [err |-> NoErr, resp |-> Tamper(r.resp, fault), st |-> r.st]
    IN IF fault = "net"
       THEN [err |-> Err("Net", "dial tcp: invalid port"), resp |-> NoResp,
             st |-> SrvState]
       ELSE IF fault = "wire"
       THEN [err |-> NoErr, resp |-> WireResp, st |-> SrvState]
       ELSE Do(SrvReply(SrvState, req, now, srv))

\* json.Decoder.Decode on the text of a body: the error it gives ("" for
\* none), and for an UnknownError the "message" field it finds.
DecodeError(body) ==
    CASE body = "" -> "EOF"
      [] body = TextBody -> "invalid character 'X' looking for beginning of value"
      [] OTHER -> ""
MessageOf(body) == IF body = MessageBody THEN "oops" ELSE ""

\* How far a json.Decoder has read the body when Decode returns: it stops
\* after the value; whether the Read that brought the last bytes also
\* reported the end of the stream is up to the transport.
DecoderRead(isEmpty) == IF isEmpty \/ wire.eof THEN "eof" ELSE "part"

\* Variant of newError with a plausible defect: 419 is not told apart.
newErrorNoRateLimit(resp) ==
    CASE resp.status = 404 -> Err("NotFound", "404: Not found.")
      [] resp.status = 412 -> Err("PreconditionFailed", "412: Precondition failed.")
      [] OTHER -> [kind |-> "Unknown",
                   arg |-> IF DecodeError(resp.body) # "" THEN DecodeError(resp.body)
                           ELSE MessageOf(resp.body),
                   code |-> resp.status, line |-> resp.line]

newError(resp) ==
    CASE resp.status = 404 -> Err("NotFound", "404: Not found.")
      [] resp.status = 412 -> Err("PreconditionFailed", "412: Precondition failed.")
      [] resp.status = 419 -> Err("RateLimited", "Request rate limited.")
      [] OTHER -> [kind |-> "Unknown",
                   arg |-> IF DecodeError(resp.body) # "" THEN DecodeError(resp.body)
                           ELSE MessageOf(resp.body),
                   code |-> resp.status, line |-> resp.line]

\* What newError has read of the body when it returns.
newErrorRead(resp) ==
    IF resp.status \in {404, 412, 419} THEN "none" ELSE DecoderRead(resp.body = "")

\* Variant of emptyReply with a plausible defect: every 2xx status is taken
\* for the expected one.
emptyReplyAny2xx(req, status, fault, now) ==
    LET Reply(d) ==
            IF d.err # NoErr
            THEN [resp |-> NoResp, err |-> d.err, st |-> d.st, status |-> 0,
                  read |-> "none"]
            ELSE IF d.resp.status \div 100 # status \div 100
            THEN [resp |-> NoResp, err |-> newError(d.resp), st |-> d.st,
                  status |-> d.resp.status, read |-> newErrorRead(d.resp)]
            ELSE [resp |-> d.resp, err |-> NoErr, st |-> d.st, status |-> d.resp.status,
                  read |-> "eof"]
    IN Reply(doRequest(req, fault, now))

\* `read` is how far the body of the reply has been read when the call
\* returns: not at all, in part, or to the end of the stream.
emptyReply(req, status, fault, now) ==
    LET Reply(d) ==
            IF d.err # NoErr
            THEN [resp |-> NoResp, err |-> d.err, st |-> d.st, status |-> 0,
                  read |-> "none"]
            ELSE IF d.resp.status # status
            THEN [resp |-> NoResp, err |-> newError(d.resp), st |-> d.st,
                  status |-> d.resp.status, read |-> newErrorRead(d.resp)]
            ELSE [resp |-> d.resp, err |-> NoErr, st |-> d.st, status |-> d.resp.status,
                  read |-> "eof"]
    IN Reply(doRequest(req, fault, now))

\* decoder.Decode(value) of jsonReply: `into` is the type of the value the
\* caller passes (json.RawMessage, jsonEvent or jsonList). A body of the
\* service is the value itself; of the text an intermediary sends, an object
\* decodes into the zero value of a struct, unknown fields being ignored.
DecodeBody(body, into, fault) ==
    IF fault = "badBody" THEN [err |-> "invalid character", val |-> ""]
    ELSE IF fault # "wire" THEN [err |-> "", val |-> body]
    ELSE IF DecodeError(body) # "" THEN [err |-> DecodeError(body), val |-> ""]
    ELSE CASE into = "jsonEvent" ->
                [err |-> "", val |-> [Ordinal |-> 0, PathRef |-> "", Timestamp |-> 0,
                                      Value |-> ""]]
           [] into = "jsonList" ->
                [err |-> "", val |-> [Next |-> EmptyUrl, Results |-> <<>>]]
           [] OTHER -> [err |-> "", val |-> body]

jsonReply(req, status, into, fault, now) ==
    LET Decoded(d, v, rd) ==
            IF v.err # ""
            THEN [resp |-> NoResp, err |-> Err("Local", v.err), st |-> d.st,
                  status |-> d.resp.status, read |-> rd]
            ELSE [resp |-> [d.resp EXCEPT !.body = v.val], err |-> NoErr, st |-> d.st,
                  status |-> d.resp.status, read |-> rd]
        Reply(d) ==
            IF d.err # NoErr
            THEN [resp |-> NoResp, err |-> d.err, st |-> d.st, status |-> 0,
                  read |-> "none"]
            ELSE IF d.resp.status # status
            THEN [resp |-> NoResp, err |-> newError(d.resp), st |-> d.st,
                  status |-> d.resp.status, read |-> newErrorRead(d.resp)]
            ELSE Decoded(d, DecodeBody(d.resp.body, into, fault),
                         DecoderRead(fault = "wire" /\ wire.reply.body = ""))
    IN Reply(doRequest(req, fault, now))

\* What a library call gives back: the entity (or Nil), the error, the value
\* decoded into the caller's destination, and what went over the wire.
Result(ret, err, dec, req, r) ==
    [ret |-> ret, err |-> err, dec |-> dec, req |-> req, status |-> r.status,
     read |-> r.read, st |-> r.st]
LocalFailure(err) ==
    [ret |-> Nil, err |-> err, dec |-> NoVal, req |-> NoReq, status |-> 0,
     read |-> "none", st |-> SrvState]

\* A PreconditionFailedError of the transport is handed on as `err`.
Reclassify(r, err) == IF r.err.kind = "PreconditionFailed" THEN [r EXCEPT !.err = err] ELSE r

Item(key, ref, value) == [Key |-> key, Ref |-> ref, Value |-> value]
Event(key, typ, ts, ord, ref, value) ==
    [Key |-> key, Type |-> typ, Timestamp |-> ts, Ordinal |-> ord, Ref |-> ref,
     Value |-> value]

-----------------------------------------------------------------------------
(* Key-value operations of Collection and Item *)

NoHeaders == [IfMatch |-> NoHeader, IfNoneMatch |-> NoHeader]
Request(method, path, query, headers, body) ==
    [method |-> method, path |-> path, query |-> query, IfMatch |-> headers.IfMatch,
     IfNoneMatch |-> headers.IfNoneMatch, body |-> body]

\* Variant of innerPut with a plausible defect: when the Location header is
\* missing the PUT is sent a second time.
innerPutRetries(key, headers, value, fault) ==
    LET m == Marshal(value)
        req == Request("PUT", <<CollName, key>>, {}, headers, m.raw)
        Put(r) ==
            IF r.err # NoErr THEN Result(Nil, r.err, NoVal, req, r)
            ELSE IF Len(r.resp.Location) = 1
            THEN Result(Nil, Err("Local", "Missing Location header."), NoVal, req,
                        [r EXCEPT !.st = SrvReply(r.st, req, 0, srv).st])
            ELSE Result(Item(key, Last(r.resp.Location), m.raw), NoErr, NoVal, req, r)
    IN IF m.err # NoErr THEN LocalFailure(m.err)
       ELSE Put(emptyReply(req, 201, fault, 0))

innerPut(key, headers, value, fault) ==
    LET m == Marshal(value)
        req == Request("PUT", <<CollName, key>>, {}, headers, m.raw)
        Put(r) ==
            IF r.err # NoErr THEN Result(Nil, r.err, NoVal, req, r)
            ELSE IF Len(r.resp.Location) = 1
            THEN Result(Nil, Err("Local", "Missing Location header."), NoVal, req, r)
            ELSE Result(Item(key, Last(r.resp.Location), m.raw), NoErr, NoVal, req, r)
    IN IF m.err # NoErr THEN LocalFailure(m.err)
       ELSE Put(emptyReply(req, 201, fault, 0))

\* Variants of Create with a plausible defect: the 412 handed on as it came,
\* and the PUT sent without If-None-Match.
CreateUnclassified(key, value, fault) ==
    innerPut(key, [NoHeaders EXCEPT !.IfNoneMatch = Quoted("*")], value, fault)

CreateUnconditional(key, value, fault) ==
    Reclassify(innerPut(key, NoHeaders, value, fault), Err("AlreadyExists", key))

Create(key, value, fault) ==
    Reclassify(innerPut(key, [NoHeaders EXCEPT !.IfNoneMatch = Quoted("*")], value, fault),
               Err("AlreadyExists", key))

Update(key, value, fault) == innerPut(key, NoHeaders, value, fault)

\* Variant of Item.Update with a plausible defect: no If-Match is sent.
ItemUpdateUnconditional(i, value, fault) ==
    Reclassify(innerPut(i.Key, NoHeaders, value, fault), Err("NotMostRecent", i.Key))

ItemUpdate(i, value, fault) ==
    Reclassify(innerPut(i.Key, [NoHeaders EXCEPT !.IfMatch = Quoted(i.Ref)], value, fault),
               Err("NotMostRecent", i.Key))

\* Variant of Item.Delete with a plausible defect: the If-Match carries the
\* bare ref, without the quotes.
ItemDeleteUnquoted(i, fault) ==
    LET req == Request("DELETE", <<CollName, i.Key>>, {},
                       [NoHeaders EXCEPT !.IfMatch = <<i.Ref>>], "")
        Del(r) == Result(Nil, r.err, NoVal, req, r)
    IN Reclassify(Del(emptyReply(req, 204, fault, 0)), Err("NotMostRecent", i.Ref))

ItemDelete(i, fault) ==
    LET req == Request("DELETE", <<CollName, i.Key>>, {},
                       [NoHeaders EXCEPT !.IfMatch = Quoted(i.Ref)], "")
        Del(r) == Result(Nil, r.err, NoVal, req, r)
    IN Reclassify(Del(emptyReply(req, 204, fault, 0)), Err("NotMostRecent", i.Ref))

Delete(key, fault) ==
    LET req == Request("DELETE", <<CollName, key>>, {}, NoHeaders, "")
        Del(r) == Result(Nil, r.err, NoVal, req, r)
    IN Del(emptyReply(req, 204, fault, 0))

Purge(key, fault) ==
    LET req == Request("DELETE", <<CollName, key>>, {<<"purge", <<"true">>>>},
                       NoHeaders, "")
        Del(r) == Result(Nil, r.err, NoVal, req, r)
    IN Del(emptyReply(req, 204, fault, 0))

GetRef(key, ref, dest, fault) ==
    LET path == IF ref = "" THEN <<CollName, key>> ELSE <<CollName, key, "refs", ref>>
        req == Request("GET", path, {}, NoHeaders, "")
        Decode(item, u, r) ==
            IF dest # "nil" THEN Result(item, u.err, u.val, req, r)
            ELSE Result(item, NoErr, NoVal, req, r)
        Got(r) ==
            IF r.err # NoErr THEN Result(Nil, r.err, NoVal, req, r)
            ELSE IF ref = "" /\ Len(r.resp.ContentLocation) = 1
            THEN Result(Nil, Err("Local", "Missing Content-Location header."), NoVal,
                        req, r)
            ELSE Decode(Item(key, IF ref = "" THEN Last(r.resp.ContentLocation) ELSE ref,
                             r.resp.body),
                        Unmarshal(r.resp.body, dest), r)
    IN Got(jsonReply(req, 200, "RawMessage", fault, 0))

Get(key, dest, fault) == GetRef(key, "", dest, fault)

-----------------------------------------------------------------------------
(* Event operations of Collection and Event *)

JsonHeaders == NoHeaders     \* Content-Type is set by doRequest for every body

\* The parsing of the Location and Etag headers shared by innerAddEvent and
\* innerUpdateEvent; `event` holds what the call knows before the reply.
EventFromReply(event, req, r) ==
    LET loc == r.resp.Location
        etag == r.resp.Etag
    IN IF loc = NoHeader
       THEN Result(Nil, Err("Local", "Missing Location header."), NoVal, req, r)
       ELSE IF Len(loc) # 8
       THEN Result(Nil, Err("Local", "Malformed Location header."), NoVal, req, r)
       ELSE IF ~IsNum(loc[7])
       THEN Result(Nil, Err("Local", "Malformed Timestamp in the Location header."),
                   NoVal, req, r)
       ELSE IF ~IsNum(loc[8])
       THEN Result(Nil, Err("Local", "Malformed Ordinal in the Location header."),
                   NoVal, req, r)
       ELSE IF etag = NoHeader
       THEN Result(Nil, Err("Local", "Missing ETag header."), NoVal, req, r)
       ELSE IF Len(etag) # 3
       THEN Result(Nil, Err("Local", "Malformed ETag header."), NoVal, req, r)
       ELSE Result([event EXCEPT !.Timestamp = TimeOfMs(Atoi(loc[7])),
                                 !.Ordinal = Atoi(loc[8]), !.Ref = etag[2]],
                   NoErr, NoVal, req, r)

\* ts is a time.Time, or Nil for AddEvent.
innerAddEvent(key, typ, ts, value, fault, now) ==
    LET m == Marshal(value)
        path == IF ts # Nil THEN <<CollName, key, "events", typ, Itoa(UnixMs(ts))>>
                ELSE <<CollName, key, "events", typ>>
        req == Request("POST", path, {}, JsonHeaders, m.raw)
        Added(r) ==
            IF r.err # NoErr THEN Result(Nil, r.err, NoVal, req, r)
            ELSE EventFromReply(Event(key, typ, Time(0), 0, "", m.raw), req, r)
    IN IF m.err # NoErr THEN LocalFailure(m.err)
       ELSE Added(emptyReply(req, 201, fault, now))

AddEvent(key, typ, value, fault, now) == innerAddEvent(key, typ, Nil, value, fault, now)

AddEventWithTimestamp(key, typ, ts, value, fault) ==
    innerAddEvent(key, typ, ts, value, fault, 0)

EventPath(key, typ, ts, ordinal) ==
    <<CollName, key, "events", typ, Itoa(UnixMs(ts)), Itoa(ordinal)>>

DeleteEvent(key, typ, ts, ordinal, fault) ==
    LET req == Request("DELETE", EventPath(key, typ, ts, ordinal),
                       {<<"purge", <<"true">>>>}, NoHeaders, "")
        Del(r) == Result(Nil, r.err, NoVal, req, r)
    IN Del(emptyReply(req, 204, fault, 0))

GetEvent(key, typ, ts, ordinal, dest, fault) ==
    LET req == Request("GET", EventPath(key, typ, ts, ordinal), {}, NoHeaders, "")
        Decode(event, u, r) ==
            IF dest # "nil" THEN Result(event, u.err, u.val, req, r)
            ELSE Result(event, NoErr, NoVal, req, r)
        Got(r) ==
            IF r.err # NoErr THEN Result(Nil, r.err, NoVal, req, r)
            ELSE Decode(Event(key, typ, TimeOfMs(r.resp.body.Timestamp),
                              r.resp.body.Ordinal, r.resp.body.PathRef,
                              r.resp.body.Value),
                        Unmarshal(r.resp.body.Value, dest), r)
    IN Got(jsonReply(req, 200, "jsonEvent", fault, 0))

innerUpdateEvent(key, typ, ts, ordinal, value, headers, fault) ==
    LET m == Marshal(value)
        req == Request("PUT", EventPath(key, typ, ts, ordinal), {}, headers, m.raw)
        Updated(r) ==
            IF r.err # NoErr THEN Result(Nil, r.err, NoVal, req, r)
            ELSE EventFromReply(Event(key, typ, ts, ordinal, "", m.raw), req, r)
    IN IF m.err # NoErr THEN LocalFailure(m.err)
       ELSE Updated(emptyReply(req, 204, fault, 0))

UpdateEvent(key, typ, ts, ordinal, value, fault) ==
    innerUpdateEvent(key, typ, ts, ordinal, value, JsonHeaders, fault)

EventUpdate(e, value, fault) ==
    Reclassify(innerUpdateEvent(e.Key, e.Type, e.Timestamp, e.Ordinal, value,
                                [NoHeaders EXCEPT !.IfMatch = Quoted(e.Ref)], fault),
               Err("NotMostRecent", e.Ref))

EventDelete(e, fault) ==
    LET req == Request("DELETE", EventPath(e.Key, e.Type, e.Timestamp, e.Ordinal),
                       {<<"purge", <<"true">>>>},
                       [NoHeaders EXCEPT !.IfMatch = Quoted(e.Ref)], "")
        Del(r) == Result(Nil, r.err, NoVal, req, r)
    IN Reclassify(Del(emptyReply(req, 204, fault, 0)), Err("NotMostRecent", e.Ref))

-----------------------------------------------------------------------------
(* Graph operations of Collection *)

LinkKind == "kind"

Link(key, kind, toCollection, toKey, fault) ==
    LET req == Request("PUT", <<CollName, key, "relation", kind, toCollection, toKey>>,
                       {}, NoHeaders, "")
        Linked(r) == Result(Nil, r.err, NoVal, req, r)
    IN Linked(emptyReply(req, 204, fault, 0))

Unlink(key, kind, toCollection, toKey, fault) ==
    LET req == Request("DELETE", <<CollName, key, "relation", kind, toCollection, toKey>>,
                       {<<"purge", <<"true">>>>}, NoHeaders, "")
        Unlinked(r) == Result(Nil, r.err, NoVal, req, r)
    IN Unlinked(emptyReply(req, 204, fault, 0))

-----------------------------------------------------------------------------
(* The Iterator and the calls that construct it. index counts from 0 as in   *)
(* the code; results is a sequence, so the current element is                 *)
(* results[index + 1].                                                        *)

NoIterator == [nil |-> TRUE]
Iterator(items, evs, next) ==
    [Error |-> NoErr, done |-> FALSE, index |-> 0, iteratingEvents |-> evs,
     iteratingItems |-> items, next |-> next, results |-> <<>>]

\* url.Values.Add for a field that is set
AddIf(cond, name, val) == IF cond THEN {<<name, val>>} ELSE {}

NoListQuery ==
    [Limit |-> 0, StartKey |-> "", AfterKey |-> "", BeforeKey |-> "", EndKey |-> ""]

\* query is a ListQuery or Nil
List(query) ==
    IF query = Nil THEN Iterator(TRUE, FALSE, Url(<<CollName>>, {}))
    ELSE Iterator(TRUE, FALSE, Url(<<CollName>>,
            AddIf(query.Limit # 0, "limit", <<Itoa(query.Limit)>>)
            \cup AddIf(query.AfterKey # "", "afterKey", <<query.AfterKey>>)
            \cup AddIf(query.BeforeKey # "", "beforeKey", <<query.BeforeKey>>)
            \cup AddIf(query.EndKey # "", "endKey", <<query.EndKey>>)
            \cup AddIf(query.StartKey # "", "startKey", <<query.StartKey>>)))

NoListEventsQuery ==
    [Limit |-> 0, Start |-> DefaultTime, StartOrdinal |-> 0, End |-> DefaultTime,
     EndOrdinal |-> 0, After |-> DefaultTime, AfterOrdinal |-> 0,
     Before |-> DefaultTime, BeforeOrdinal |-> 0]

\* "%d/%d" of the millisecond and the ordinal, or the millisecond alone when
\* the ordinal field is 0
EventBound(t, ordinal) ==
    IF ordinal # 0 THEN <<Itoa(UnixMs(t)), Itoa(ordinal)>> ELSE <<Itoa(UnixMs(t))>>

\* o is a ListEventsQuery or Nil
ListEvents(key, typ, o) ==
    IF o = Nil THEN Iterator(FALSE, TRUE, Url(<<CollName, key, "events", typ>>, {}))
    ELSE Iterator(FALSE, TRUE, Url(<<CollName, key, "events", typ>>,
            AddIf(o.Limit # 0, "limit", <<Itoa(o.Limit)>>)
            \cup AddIf(o.After # DefaultTime, "afterEvent",
                       EventBound(o.After, o.AfterOrdinal))
            \cup AddIf(o.Before # DefaultTime, "beforeEvent",
                       EventBound(o.Before, o.BeforeOrdinal))
            \cup AddIf(o.End # DefaultTime, "endEvent", EventBound(o.End, o.EndOrdinal))
            \cup AddIf(o.Start # DefaultTime, "startEvent",
                       EventBound(o.Start, o.StartOrdinal))))

NoSearchQuery == [Limit |-> 0, Offset |-> 0, Sort |-> ""]

\* opts is a SearchQuery or Nil
Search(query, o) ==
    IF o = Nil THEN Iterator(TRUE, FALSE, Url(<<CollName>>, {<<"query", <<query>>>>}))
    ELSE Iterator(TRUE, FALSE, Url(<<CollName>>,
            {<<"query", <<query>>>>}
            \cup AddIf(o.Limit # 0, "limit", <<Itoa(o.Limit)>>)
            \cup AddIf(o.Offset # 0, "offset", <<Itoa(o.Offset)>>)
            \cup AddIf(o.Sort # "", "sort", <<o.Sort>>)))

NoHistoryQuery == [Limit |-> 0, Offset |-> 0, Values |-> FALSE]

\* opts is a HistoryQuery or Nil
History(key, o) ==
    IF o = Nil THEN Iterator(TRUE, FALSE, Url(<<CollName, key, "refs">>, {}))
    ELSE Iterator(TRUE, FALSE, Url(<<CollName, key, "refs">>,
            AddIf(o.Limit # 0, "limit", <<Itoa(o.Limit)>>)
            \cup AddIf(o.Offset # 0, "offset", <<Itoa(o.Offset)>>)
            \cup AddIf(o.Values, "values", <<"true">>)))

\* Variant of GetLinks with a plausible defect: the kinds after the first
\* are left out of the path.
GetLinksFirstKind(key, o, kinds) ==
    Iterator(TRUE, FALSE, Url(<<CollName, key, "relations", kinds[1]>>,
            AddIf(o # Nil /\ o.Limit # 0, "limit", <<Itoa(o.Limit)>>)))

\* opts is a GetLinksQuery or Nil; kinds is the first kind followed by the others
GetLinks(key, o, kinds) ==
    Iterator(TRUE, FALSE, Url(<<CollName, key, "relations">> \o kinds,
            AddIf(o # Nil /\ o.Limit # 0, "limit", <<Itoa(o.Limit)>>)))

\* strings.TrimPrefix(next, "/v0/")
TrimPrefix(u) == [u EXCEPT !.v0 = FALSE]

\* Variant of the request of Next with a plausible defect: the query string
\* of the URL is left out.
NextRequestDropsQuery(next) ==
    Request("GET", IF next.v0 THEN <<"v0">> \o next.path ELSE next.path, {},
            NoHeaders, "")

\* The request doRequest sends for "/v0/" + next
NextRequest(next) ==
    Request("GET", IF next.v0 THEN <<"v0">> \o next.path ELSE next.path, next.query,
            NoHeaders, "")

\* Variant of the fetch of Next with a plausible defect: an empty page ends
\* the iteration only when it carries no "next" URL.
FetchTrustsNextUrl(i, fault) ==
    LET Sent == <<[fault |-> fault, req |-> NextRequest(i.next)]>>
        Fetched(r) ==
            IF r.err # NoErr
            THEN [it |-> [i EXCEPT !.Error = r.err], ret |-> FALSE, sent |-> Sent]
            ELSE IF Len(r.resp.body.Results) = 0
            THEN [it |-> [i EXCEPT !.next = TrimPrefix(r.resp.body.Next),
                                   !.results = r.resp.body.Results,
                                   !.done = (r.resp.body.Next = EmptyUrl)],
                  ret |-> FALSE, sent |-> Sent]
            ELSE [it |-> [i EXCEPT !.next = TrimPrefix(r.resp.body.Next),
                                   !.results = r.resp.body.Results, !.index = 0],
                  ret |-> TRUE, sent |-> Sent]
    IN Fetched(jsonReply(NextRequest(i.next), 200, "jsonList", fault, 0))

\* Variants of the fetch of Next with a plausible defect: a failed fetch also
\* marks the Iterator done; a failed fetch empties the page held.
FetchDoneOnError(i, fault) ==
    LET Sent == <<[fault |-> fault, req |-> NextRequest(i.next)]>>
        Fetched(r) ==
            IF r.err # NoErr
            THEN [it |-> [i EXCEPT !.Error = r.err, !.done = TRUE], ret |-> FALSE,
                  sent |-> Sent]
            ELSE IF Len(r.resp.body.Results) = 0
            THEN [it |-> [i EXCEPT !.next = TrimPrefix(r.resp.body.Next),
                                   !.results = r.resp.body.Results, !.done = TRUE],
                  ret |-> FALSE, sent |-> Sent]
            ELSE [it |-> [i EXCEPT !.next = TrimPrefix(r.resp.body.Next),
                                   !.results = r.resp.body.Results, !.index = 0],
                  ret |-> TRUE, sent |-> Sent]
    IN Fetched(jsonReply(NextRequest(i.next), 200, "jsonList", fault, 0))

FetchClearsPageOnError(i, fault) ==
    LET Sent == <<[fault |-> fault, req |-> NextRequest(i.next)]>>
        Fetched(r) ==
            IF r.err # NoErr
            THEN [it |-> [i EXCEPT !.Error = r.err, !.results = <<>>, !.index = 0],
                  ret |-> FALSE, sent |-> Sent]
            ELSE IF Len(r.resp.body.Results) = 0
            THEN [it |-> [i EXCEPT !.next = TrimPrefix(r.resp.body.Next),
                                   !.results = r.resp.body.Results, !.done = TRUE],
                  ret |-> FALSE, sent |-> Sent]
            ELSE [it |-> [i EXCEPT !.next = TrimPrefix(r.resp.body.Next),
                                   !.results = r.resp.body.Results, !.index = 0],
                  ret |-> TRUE, sent |-> Sent]
    IN Fetched(jsonReply(NextRequest(i.next), 200, "jsonList", fault, 0))

\* ... a failed fetch of a later page reports true for the element held.
FetchErrorKeepsElement(i, fault) ==
    LET Sent == <<[fault |-> fault, req |-> NextRequest(i.next)]>>
        Fetched(r) ==
            IF r.err # NoErr
            THEN [it |-> [i EXCEPT !.Error = r.err], ret |-> i.results # <<>>,
                  sent |-> Sent]
            ELSE IF Len(r.resp.body.Results) = 0
            THEN [it |-> [i EXCEPT !.next = TrimPrefix(r.resp.body.Next),
                                   !.results = r.resp.body.Results, !.done = TRUE],
                  ret |-> FALSE, sent |-> Sent]
            ELSE [it |-> [i EXCEPT !.next = TrimPrefix(r.resp.body.Next),
                                   !.results = r.resp.body.Results, !.index = 0],
                  ret |-> TRUE, sent |-> Sent]
    IN Fetched(jsonReply(NextRequest(i.next), 200, "jsonList", fault, 0))

\* ... an empty page is not stored: the Iterator keeps the page it held.
FetchKeepsPageOnEmpty(i, fault) ==
    LET Sent == <<[fault |-> fault, req |-> NextRequest(i.next)]>>
        Fetched(r) ==
            IF r.err # NoErr
            THEN [it |-> [i EXCEPT !.Error = r.err], ret |-> FALSE, sent |-> Sent]
            ELSE IF Len(r.resp.body.Results) = 0
            THEN [it |-> [i EXCEPT !.next = TrimPrefix(r.resp.body.Next), !.done = TRUE],
                  ret |-> FALSE, sent |-> Sent]
            ELSE [it |-> [i EXCEPT !.next = TrimPrefix(r.resp.body.Next),
                                   !.results = r.resp.body.Results, !.index = 0],
                  ret |-> TRUE, sent |-> Sent]
    IN Fetched(jsonReply(NextRequest(i.next), 200, "jsonList", fault, 0))

\* The part of Next that asks the service for the next page.
Fetch(i, fault) ==
    LET Sent == <<[fault |-> fault, req |-> NextRequest(i.next)]>>
        Fetched(r) ==
            IF r.err # NoErr
            THEN [it |-> [i EXCEPT !.Error = r.err], ret |-> FALSE, sent |-> Sent]
            ELSE IF Len(r.resp.body.Results) = 0
            THEN [it |-> [i EXCEPT !.next = TrimPrefix(r.resp.body.Next),
                                   !.results = r.resp.body.Results, !.done = TRUE],
                  ret |-> FALSE, sent |-> Sent]
            ELSE [it |-> [i EXCEPT !.next = TrimPrefix(r.resp.body.Next),
                                   !.results = r.resp.body.Results, !.index = 0],
                  ret |-> TRUE, sent |-> Sent]
    IN Fetched(jsonReply(NextRequest(i.next), 200, "jsonList", fault, 0))

\* Variants of Next with a plausible defect: the last element of a page is
\* skipped; every call asks the service; a stored Error is not looked at.
IteratorNextSkipsLast(i, fault) ==
    IF i.done THEN [it |-> i, ret |-> FALSE, sent |-> <<>>]
    ELSE IF i.Error # NoErr THEN [it |-> i, ret |-> FALSE, sent |-> <<>>]
    ELSE IF i.index < Len(i.results) - 2
    THEN [it |-> [i EXCEPT !.index = @ + 1], ret |-> TRUE, sent |-> <<>>]
    ELSE IF i.next = EmptyUrl
    THEN [it |-> [i EXCEPT !.done = TRUE], ret |-> FALSE, sent |-> <<>>]
    ELSE Fetch(i, fault)

IteratorNextAlwaysFetches(i, fault) ==
    IF i.done THEN [it |-> i, ret |-> FALSE, sent |-> <<>>]
    ELSE IF i.Error # NoErr THEN [it |-> i, ret |-> FALSE, sent |-> <<>>]
    ELSE IF i.next = EmptyUrl
    THEN [it |-> [i EXCEPT !.done = TRUE], ret |-> FALSE, sent |-> <<>>]
    ELSE Fetch(i, fault)

IteratorNextRetries(i, fault) ==
    IF i.done THEN [it |-> i, ret |-> FALSE, sent |-> <<>>]
    ELSE IF i.index < Len(i.results) - 1
    THEN [it |-> [i EXCEPT !.index = @ + 1], ret |-> TRUE, sent |-> <<>>]
    ELSE IF i.next = EmptyUrl
    THEN [it |-> [i EXCEPT !.done = TRUE], ret |-> FALSE, sent |-> <<>>]
    ELSE Fetch(i, fault)

\* Iterator.Next: the iterator afterwards, the value returned, and the
\* requests issued (none, or one with what the transport did to it).
IteratorNext(i, fault) ==
    IF i.done THEN [it |-> i, ret |-> FALSE, sent |-> <<>>]
    ELSE IF i.Error # NoErr THEN [it |-> i, ret |-> FALSE, sent |-> <<>>]
    ELSE IF i.index < Len(i.results) - 1
    THEN [it |-> [i EXCEPT !.index = @ + 1], ret |-> TRUE, sent |-> <<>>]
    ELSE IF i.next = EmptyUrl
    THEN [it |-> [i EXCEPT !.done = TRUE], ret |-> FALSE, sent |-> <<>>]
    ELSE Fetch(i, fault)

\* Iterator.NextWithError: Next's value and Iterator.Error afterwards
NextWithError(i, fault) ==
    LET WithError(n) == [it |-> n.it, ret |-> n.ret, sent |-> n.sent, err |-> n.it.Error]
    IN WithError(IteratorNext(i, fault))

\* Variant of Iterator.Get with a plausible defect: the kind of the Iterator
\* is looked at only when no element is loaded.
IteratorGetAnyKind(i, dest) ==
    IF ~i.iteratingItems /\ i.index >= Len(i.results)
    THEN [ret |-> Nil, err |-> Err("Local", "Not an Item Iterator."), dec |-> NoVal]
    ELSE LET r == i.results[i.index + 1]
             u == Unmarshal(r.Value, dest)
         IN [ret |-> Item(r.Key, r.Ref, r.Value),
             err |-> IF dest # "nil" THEN u.err ELSE NoErr,
             dec |-> IF dest # "nil" THEN u.val ELSE NoVal]

\* Variant of Iterator.Get with a plausible defect: a value that cannot be
\* decoded gives no Item.
IteratorGetNilOnDecodeError(i, dest) ==
    IF ~i.iteratingItems
    THEN [ret |-> Nil, err |-> Err("Local", "Not an Item Iterator."), dec |-> NoVal]
    ELSE LET r == i.results[i.index + 1]
             u == Unmarshal(r.Value, dest)
         IN [ret |-> IF dest # "nil" /\ u.err # NoErr THEN Nil
                     ELSE Item(r.Key, r.Ref, r.Value),
             err |-> IF dest # "nil" THEN u.err ELSE NoErr,
             dec |-> IF dest # "nil" THEN u.val ELSE NoVal]

\* Iterator.Get / Iterator.GetEvent on the current element
IteratorGet(i, dest) ==
    IF ~i.iteratingItems
    THEN [ret |-> Nil, err |-> Err("Local", "Not an Item Iterator."), dec |-> NoVal]
    ELSE LET r == i.results[i.index + 1]
             u == Unmarshal(r.Value, dest)
         IN [ret |-> Item(r.Key, r.Ref, r.Value),
             err |-> IF dest # "nil" THEN u.err ELSE NoErr,
             dec |-> IF dest # "nil" THEN u.val ELSE NoVal]

IteratorGetEvent(i, dest) ==
    IF ~i.iteratingEvents
    THEN [ret |-> Nil, err |-> Err("Local", "Not an Event Iterator."), dec |-> NoVal]
    ELSE LET r == i.results[i.index + 1]
             u == Unmarshal(r.Value, dest)
         IN [ret |-> Event(r.Key, r.Type, TimeOfMs(r.Timestamp), r.Ordinal, r.Ref, r.Value),
             err |-> IF dest # "nil" THEN u.err ELSE NoErr,
             dec |-> IF dest # "nil" THEN u.val ELSE NoVal]

-----------------------------------------------------------------------------
(* The caller: any sequence of library calls, on any key, with any value,    *)
(* through any Item or Event handle, over a transport that may fail. The     *)
(* result of a call stays in `last` until the caller drops it (Discard) and  *)
(* goes on to its next call.                                                 *)

PutFaults == {"none", "net", "delLocation", "badLocation", "trailingSlash"}
GetFaults == {"none", "net", "delContentLocation", "badBody"}
DelFaults == {"none", "net"}
EvFaults == {"none", "net", "delLocation", "badLocation", "trailingSlash",
             "badTimestamp", "badOrdinal", "delEtag", "badEtag"}

\* A value and what the transport does to the reply: a value json.Marshal
\* rejects never reaches the transport.
\* When an intermediary answers in place of the service, every request gets
\* its reply.
Faults(F) == IF wire.reply = Nil THEN F ELSE {"wire"}

PutInputs(faults) == (GoVals \X Faults(faults)) \cup {<<BadValue, "none">>}
GetDests == {"nil", "int"}
SrvClock == {1, 2}           \* the service's clock when an event arrives, in ms
SubMsNs == 100
CallerTimes == {Time(NsPerMs), Time(NsPerMs + SubMsNs), Time(2 * NsPerMs)}
EvKeys == {"k1"}             \* the keys the caller attaches events to

\* Item and Event are plain structs: a handle names a key (an event) and
\* carries any ref the service has handed out so far.
IssuedRefs == {RefStr(n) : n \in 1..(nextRef - 1)}
ItemHandles == {Item(k, r, "") : k \in Keys, r \in IssuedRefs}
EventHandles == {Event(e.key, e.typ, TimeOfMs(e.ts), e.ord, r, "") :
                    e \in events, r \in IssuedRefs}
EventCoords == {Event(e.key, e.typ, TimeOfMs(e.ts), e.ord, "", "") : e \in events}

NoCall == [op |-> "", key |-> "", h |-> Nil, val |-> NoVal, dest |-> "nil", ts |-> Nil,
           fault |-> "none", pre |-> Nil, req |-> NoReq, status |-> 0, read |-> "none",
           ret |-> Nil, err |-> NoErr, dec |-> NoVal]

\* What a key-value or event call leaves alone, and what a call on the
\* Iterator leaves alone besides the Iterator.
OtherVars == <<wire, apiHost, px, thr, clients>>
IterVars == <<it, opts, fetches, yielded, stops, srv, OtherVars>>

\* The call returns: its result is in `last`, together with the state the
\* service was in when the call was made (pre), and the service is in the
\* state the request left it in.
Commit(op, key, h, val, dest, ts, fault, r) ==
    /\ last = NoCall
    /\ r.st.nextRef <= MaxRef + 1
    /\ kv' = r.st.kv
    /\ events' = r.st.events
    /\ nextRef' = r.st.nextRef
    /\ links' = r.st.links
    /\ last' = [op |-> op, key |-> key, h |-> h, val |-> val, dest |-> dest, ts |-> ts,
                fault |-> fault, pre |-> SrvState, req |-> r.req, status |-> r.status,
                read |-> r.read, ret |-> r.ret, err |-> r.err, dec |-> r.dec]
    /\ UNCHANGED IterVars

Discard ==
    /\ last # NoCall
    /\ last' = NoCall
    /\ UNCHANGED <<kv, events, nextRef, links>>
    /\ UNCHANGED IterVars

DoCreate ==
    \E k \in Keys, vf \in PutInputs(PutFaults) :
        Commit("Create", k, Nil, vf[1], "nil", Nil, vf[2], Create(k, vf[1], vf[2]))

DoUpdate ==
    \E k \in Keys, vf \in PutInputs(PutFaults) :
        Commit("Update", k, Nil, vf[1], "nil", Nil, vf[2], Update(k, vf[1], vf[2]))

DoItemUpdate ==
    \E i \in ItemHandles, vf \in PutInputs(PutFaults) :
        Commit("Item.Update", i.Key, i, vf[1], "nil", Nil, vf[2],
               ItemUpdate(i, vf[1], vf[2]))

DoItemDelete ==
    \E i \in ItemHandles, f \in Faults(DelFaults) :
        Commit("Item.Delete", i.Key, i, NoVal, "nil", Nil, f, ItemDelete(i, f))

DoDelete ==
    \E k \in Keys, f \in Faults(DelFaults) :
        Commit("Delete", k, Nil, NoVal, "nil", Nil, f, Delete(k, f))

DoPurge ==
    \E k \in Keys, f \in Faults(DelFaults) :
        Commit("Purge", k, Nil, NoVal, "nil", Nil, f, Purge(k, f))

DoGet ==
    \E k \in Keys, d \in GetDests, f \in Faults(GetFaults) :
        Commit("Get", k, Nil, NoVal, d, Nil, f, Get(k, d, f))

DoGetRef ==
    \E i \in ItemHandles, d \in GetDests, f \in Faults(GetFaults) :
        Commit("GetRef", i.Key, i, NoVal, d, Nil, f, GetRef(i.Key, i.Ref, d, f))

DoAddEvent ==
    \E k \in EvKeys, vf \in PutInputs(EvFaults), now \in SrvClock :
        Commit("AddEvent", k, Nil, vf[1], "nil", Nil, vf[2],
               AddEvent(k, EvType, vf[1], vf[2], now))

DoAddEventWithTimestamp ==
    \E k \in EvKeys, vf \in PutInputs(EvFaults), ts \in CallerTimes :
        Commit("AddEventWithTimestamp", k, Nil, vf[1], "nil", ts, vf[2],
               AddEventWithTimestamp(k, EvType, ts, vf[1], vf[2]))

DoGetEvent ==
    \E e \in EventCoords, d \in GetDests, f \in Faults(GetFaults) :
        Commit("GetEvent", e.Key, e, NoVal, d, Nil, f,
               GetEvent(e.Key, e.Type, e.Timestamp, e.Ordinal, d, f))

DoUpdateEvent ==
    \E e \in EventCoords, vf \in PutInputs(EvFaults) :
        Commit("UpdateEvent", e.Key, e, vf[1], "nil", Nil, vf[2],
               UpdateEvent(e.Key, e.Type, e.Timestamp, e.Ordinal, vf[1], vf[2]))

DoEventUpdate ==
    \E e \in EventHandles, vf \in PutInputs(EvFaults) :
        Commit("Event.Update", e.Key, e, vf[1], "nil", Nil, vf[2],
               EventUpdate(e, vf[1], vf[2]))

DoEventDelete ==
    \E e \in EventHandles, f \in Faults(DelFaults) :
        Commit("Event.Delete", e.Key, e, NoVal, "nil", Nil, f, EventDelete(e, f))

DoDeleteEvent ==
    \E e \in EventCoords, f \in Faults(DelFaults) :
        Commit("DeleteEvent", e.Key, e, NoVal, "nil", Nil, f,
               DeleteEvent(e.Key, e.Type, e.Timestamp, e.Ordinal, f))

DoLink ==
    \E k \in EvKeys, to \in Keys, f \in Faults(DelFaults) :
        Commit("Link", k, Nil, NoVal, "nil", Nil, f, Link(k, LinkKind, CollName, to, f))

DoUnlink ==
    \E k \in EvKeys, to \in Keys, f \in Faults(DelFaults) :
        Commit("Unlink", k, Nil, NoVal, "nil", Nil, f,
               Unlink(k, LinkKind, CollName, to, f))

Init ==
    /\ kv = [k \in Keys |-> <<>>]
    /\ events = {}
    /\ nextRef = 1
    /\ last = NoCall
    /\ it = NoIterator
    /\ opts = Nil
    /\ fetches = <<>>
    /\ yielded = <<>>
    /\ stops = 0
    /\ srv = "more"
    /\ wire = NoWire
    /\ apiHost = DefaultAPIHost
    /\ px = <<>>
    /\ thr = <<>>
    /\ clients = <<>>
    /\ links = {}

Next ==
    \/ DoCreate
    \/ DoUpdate
    \/ DoItemUpdate
    \/ DoItemDelete
    \/ DoDelete
    \/ DoPurge
    \/ DoGet
    \/ DoGetRef
    \/ DoAddEvent
    \/ DoAddEventWithTimestamp
    \/ DoGetEvent
    \/ DoUpdateEvent
    \/ DoEventUpdate
    \/ DoEventDelete
    \/ DoDeleteEvent
    \/ Discard

Spec == Init /\ [][Next]_vars

-----------------------------------------------------------------------------
(* Properties of the key-value and event calls, under Spec *)

\* The request of the call was answered: the value could be marshalled and
\* the transport delivered a reply.
Delivered(l) == l.fault # "net" /\ l.val # BadValue

ItemStale(st, i) == i.Ref # CurrentRef(st, i.Key)
StoredEvent(st, e) == EventsAt(st, e.Key, e.Type, UnixMs(e.Timestamp), e.Ordinal)
EventStale(st, e) == StoredEvent(st, e) # {} /\ \A x \in StoredEvent(st, e) : x.ref # e.Ref

\* Get(key) now gives what the service held for the key in state st.
GetGives(st, key) ==
    LET g == Get(key, "nil", "none")
    IN IF Live(st, key)
       THEN g.err = NoErr /\ g.ret = Item(key, CurrentRef(st, key), Last(st.kv[key]).value)
       ELSE g.err.kind = "NotFound" /\ g.ret = Nil

\* GetEvent at the place of e now gives what the service held there in state st.
GetEventGives(st, e) ==
    LET g == GetEvent(e.Key, e.Type, e.Timestamp, e.Ordinal, "nil", "none")
    IN IF StoredEvent(st, e) # {}
       THEN /\ g.err = NoErr
            /\ \E x \in StoredEvent(st, e) :
                   g.ret = Event(e.Key, e.Type, TimeOfMs(x.ts), x.ord, x.ref, x.value)
       ELSE g.err.kind = "NotFound" /\ g.ret = Nil

(* C1: a conditional update (Item.Update, Event.Update) made with a ref that  *)
(* is not the most recent one fails with NotMostRecentError and a nil entity, *)
(* leaves the service as it was, and a following Get / GetEvent still gives   *)
(* the revision that was current before the call.                             *)
StaleUpdateRejected ==
    /\ (last.op = "Item.Update" /\ Delivered(last) /\ ItemStale(last.pre, last.h)) =>
            /\ last.err.kind = "NotMostRecent"
            /\ last.ret = Nil
            /\ SrvState = last.pre
            /\ GetGives(last.pre, last.key)
    /\ (last.op = "Event.Update" /\ Delivered(last) /\ EventStale(last.pre, last.h)) =>
            /\ last.err.kind = "NotMostRecent"
            /\ last.ret = Nil
            /\ SrvState = last.pre
            /\ GetEventGives(last.pre, last.h)

StaleUpdateWitness ==
    /\ last.op = "Item.Update"
    /\ Delivered(last)
    /\ Live(last.pre, last.key)
    /\ ItemStale(last.pre, last.h)
    /\ last.err.kind = "NotMostRecent"

Conditional == {"Item.Update", "Item.Delete", "Event.Update", "Event.Delete"}

(* C2: a 412 reply surfaces as AlreadyExistsError from Create and as          *)
(* NotMostRecentError from Item.Update, Item.Delete, Event.Update and         *)
(* Event.Delete; none of these calls ever returns PreconditionFailedError,    *)
(* while newError itself classifies a 412 as PreconditionFailedError.         *)
PreconditionReclassified ==
    /\ (last.op = "Create" /\ last.status = 412) => last.err.kind = "AlreadyExists"
    /\ (last.op \in Conditional /\ last.status = 412) => last.err.kind = "NotMostRecent"
    /\ last.op \in Conditional \cup {"Create"} => last.err.kind # "PreconditionFailed"
    /\ newError(Resp(412, "")).kind = "PreconditionFailed"

PreconditionWitness ==
    /\ last.op = "Event.Delete"
    /\ last.status = 412
    /\ last.err.kind = "NotMostRecent"

Mutating == {"Create", "Update", "Item.Update", "AddEvent", "AddEventWithTimestamp",
             "UpdateEvent", "Event.Update"}
LocationFaults == {"delLocation", "badLocation", "trailingSlash", "badTimestamp",
                   "badOrdinal"}
EtagFaults == {"delEtag", "badEtag"}
EventWrites == Mutating \ {"Create", "Update", "Item.Update"}

(* C6: when the reply with the expected status to a mutating call lacks the   *)
(* Location header or carries a malformed one (for events: or lacks the Etag  *)
(* header or carries a malformed one), the call returns an error and a nil    *)
(* entity, the error being 'Missing ... header.' when the header is absent.   *)
BadHeaderIsError ==
    (/\ last.op \in Mutating
     /\ last.status \in {201, 204}
     /\ \/ last.fault \in LocationFaults
        \/ last.op \in EventWrites /\ last.fault \in EtagFaults) =>
        /\ last.err # NoErr
        /\ last.ret = Nil
        /\ last.fault = "delLocation" => last.err.arg = "Missing Location header."
        /\ last.fault = "delEtag" => last.err.arg = "Missing ETag header."

\* The errors a call gives for a header of the reply.
HeaderErrors ==
    {Err("Local", m) : m \in {"Missing Location header.", "Malformed Location header.",
                              "Malformed Timestamp in the Location header.",
                              "Malformed Ordinal in the Location header.",
                              "Missing ETag header.", "Malformed ETag header."}}

(* C29: a mutating call that fails only because the Location (or Etag) header *)
(* of a reply with the expected status is missing or malformed returns a nil  *)
(* entity and the error although the service has stored the write: the write  *)
(* is neither undone nor sent again, so a following Get gives the value of    *)
(* the failed call and a following Create of the key fails with               *)
(* AlreadyExistsError.                                                        *)
HeaderFailureKeepsWrite ==
    (last.op \in Mutating /\ last.err \in HeaderErrors) =>
        /\ last.ret = Nil
        /\ last.status \in {201, 204}
        /\ last.op \in {"Create", "Update", "Item.Update"} =>
                /\ Len(kv[last.key]) = Len(last.pre.kv[last.key]) + 1
                /\ nextRef = last.pre.nextRef + 1
                /\ Last(kv[last.key]).value = Marshal(last.val).raw
                /\ Get(last.key, "int", "none").err = NoErr
                /\ Get(last.key, "int", "none").dec = last.val
                /\ \A v \in GoVals :
                        /\ Create(last.key, v, "none").err = Err("AlreadyExists", last.key)
                        /\ Create(last.key, v, "none").ret = Nil
        /\ last.op \in {"AddEvent", "AddEventWithTimestamp"} =>
                /\ Cardinality(events) = Cardinality(last.pre.events) + 1
                /\ nextRef = last.pre.nextRef + 1
        /\ last.op \in {"UpdateEvent", "Event.Update"} =>
                /\ nextRef = last.pre.nextRef + 1
                /\ \A x \in StoredEvent(SrvState, last.h) :
                        x.value = Marshal(last.val).raw

HeaderFailureWitness ==
    /\ last.op = "Update"
    /\ last.fault = "delLocation"
    /\ last.err = Err("Local", "Missing Location header.")
    /\ last.ret = Nil
    /\ Len(last.pre.kv[last.key]) = 1
    /\ Len(kv[last.key]) = 2
    /\ Get(last.key, "int", "none").dec = last.val

(* C7: after a successful Create(key, v), Get(key) gives an Item equal to the *)
(* one Create returned (key, ref, raw value), the value decoded from it is v, *)
(* and the ref is not the empty string.                                       *)
CreateGetRoundTrip ==
    (last.op = "Create" /\ last.err = NoErr) =>
        LET g == Get(last.key, last.val.typ, "none")
        IN /\ g.err = NoErr
           /\ g.ret = last.ret
           /\ g.dec = last.val
           /\ last.ret.Ref # ""
           /\ g.ret.Ref # ""

(* C9: Item.Delete and Event.Delete send If-Match with the entity's ref; with *)
(* a ref that is not the most recent the call fails with NotMostRecentError   *)
(* and Get / GetEvent still gives the current revision; with the most recent  *)
(* ref the call succeeds and Get / GetEvent gives NotFoundError and nil.      *)
ConditionalDelete ==
    /\ last.op = "Item.Delete" =>
            /\ last.req.IfMatch = Quoted(last.h.Ref)
            /\ (last.fault # "net" /\ ItemStale(last.pre, last.h)) =>
                    /\ last.err.kind = "NotMostRecent"
                    /\ SrvState = last.pre
                    /\ GetGives(last.pre, last.key)
            /\ (last.fault # "net" /\ ~ItemStale(last.pre, last.h)) =>
                    /\ last.err = NoErr
                    /\ Get(last.key, "nil", "none").err.kind = "NotFound"
                    /\ Get(last.key, "nil", "none").ret = Nil
    /\ last.op = "Event.Delete" =>
            /\ last.req.IfMatch = Quoted(last.h.Ref)
            /\ (last.fault # "net" /\ EventStale(last.pre, last.h)) =>
                    /\ last.err.kind = "NotMostRecent"
                    /\ SrvState = last.pre
                    /\ GetEventGives(last.pre, last.h)
            /\ (last.fault # "net" /\ ~EventStale(last.pre, last.h)) =>
                    /\ last.err = NoErr
                    /\ GetEventGives([last.pre EXCEPT !.events = {}], last.h)

ConditionalDeleteWitness ==
    /\ last.op = "Item.Delete"
    /\ last.fault = "none"
    /\ Live(last.pre, last.key)
    /\ ~ItemStale(last.pre, last.h)
    /\ ~Live(SrvState, last.key)

(* C10: Create on a key that holds a live value returns a nil Item and        *)
(* AlreadyExistsError(key) and leaves the stored value and the current ref of *)
(* the key as they were, however often it is repeated.                        *)
CreateNeverOverwrites ==
    (last.op = "Create" /\ Live(last.pre, last.key)) =>
        /\ last.ret = Nil
        /\ SrvState = last.pre
        /\ Delivered(last) => last.err = Err("AlreadyExists", last.key)

CreateOnLiveWitness ==
    /\ last.op = "Create"
    /\ Delivered(last)
    /\ Live(last.pre, last.key)
    /\ last.err = Err("AlreadyExists", last.key)

\* GetRef(k, ref) now gives the revision rev of the key.
GetRefGives(k, rev) ==
    LET g == GetRef(k, rev.ref, "int", "none")
    IN /\ g.err = NoErr
       /\ g.ret = Item(k, rev.ref, rev.value)
       /\ g.dec = [typ |-> "int", n |-> Atoi(rev.value)]

(* C20: for every ref r that a successful Update of key k has returned,       *)
(* GetRef(k, r) gives Ref = r and the value written with r, whatever updates  *)
(* and deletes of k came later; GetRef(k, "") is Get: it gives the most       *)
(* recent revision with the ref of the Content-Location header, and a nil     *)
(* Item and an error when that header is absent.                              *)
RevisionsAddressable ==
    /\ (last.op \in {"Update", "Item.Update"} /\ last.err = NoErr) =>
            LET g == GetRef(last.key, last.ret.Ref, "int", "none")
            IN /\ g.err = NoErr
               /\ g.ret.Ref = last.ret.Ref
               /\ g.dec = last.val
    /\ \A k \in Keys : \A i \in 1..Len(kv[k]) : ~kv[k][i].tomb => GetRefGives(k, kv[k][i])
    /\ \A k \in Keys : GetRef(k, "", "int", "none") = Get(k, "int", "none")
    /\ (last.op = "Get" /\ last.fault \in {"none", "delContentLocation"}
        /\ Live(last.pre, last.key)) =>
            IF last.fault = "delContentLocation"
            THEN last.ret = Nil /\ last.err = Err("Local", "Missing Content-Location header.")
            ELSE /\ last.err = NoErr
                 /\ last.ret = Item(last.key, CurrentRef(last.pre, last.key),
                                    Last(last.pre.kv[last.key]).value)

-----------------------------------------------------------------------------
(* The same calls when an intermediary answers every request in place of the *)
(* service, with any status, any body and with or without headers.           *)

WireStatuses == {200, 201, 202, 204, 404, 412, 419, 500}
WireReplies ==
    {[status |-> c, line |-> StatusLine(c), body |-> b, headers |-> h] :
        c \in WireStatuses, b \in WireBodies, h \in BOOLEAN}

InitWire ==
    /\ kv = [k \in Keys |-> IF k = "k1"
                            THEN <<[ref |-> RefStr(1), value |-> "1", tomb |-> FALSE]>>
                            ELSE <<>>]
    /\ events = {[key |-> "k1", typ |-> EvType, ts |-> 1, ord |-> 0,
                  ref |-> RefStr(1), value |-> "1"]}
    /\ nextRef = 2
    /\ last = NoCall
    /\ it = NoIterator
    /\ opts = Nil
    /\ fetches = <<>>
    /\ yielded = <<>>
    /\ stops = 0
    /\ srv = "more"
    /\ wire \in [eof : BOOLEAN, reply : WireReplies]
    /\ apiHost = DefaultAPIHost
    /\ px = <<>>
    /\ thr = <<>>
    /\ clients = <<>>
    /\ links = {}

NextWire ==
    \/ Next
    \/ DoLink
    \/ DoUnlink

SpecWire == InitWire /\ [][NextWire]_vars

\* The status each call hands to emptyReply / jsonReply.
Reads == {"Get", "GetRef", "GetEvent"}
Removals == {"Delete", "Purge", "Item.Delete", "DeleteEvent", "Event.Delete",
             "Link", "Unlink"}
EventUpdates == {"UpdateEvent", "Event.Update"}
Expected(op) ==
    IF op \in Reads THEN 200
    ELSE IF op \in Removals \cup EventUpdates THEN 204
    ELSE 201

\* The call got a reply, and its status is not the one the call expects.
Refused(l) == l.op # "" /\ l.status # 0 /\ l.status # Expected(l.op)

Classified(err) ==
    err.kind \in {"NotFound", "PreconditionFailed", "RateLimited", "Unknown",
                  "AlreadyExists", "NotMostRecent"}

(* C11: newError depends on the status code alone: 404 gives NotFoundError,   *)
(* 412 PreconditionFailedError, 419 RateLimitedError, every other status an   *)
(* UnknownError with the status line, the status code and the "message" field *)
(* of a JSON body; every call hands on what newError gives for the reply      *)
(* (the 412 aside, which some calls give another type).                       *)
ErrorClassifier ==
    wire.reply # Nil =>
        LET e == newError(WireResp)
            c == wire.reply.status
        IN /\ c = 404 => e = Err("NotFound", "404: Not found.")
           /\ c = 412 => e = Err("PreconditionFailed", "412: Precondition failed.")
           /\ c = 419 => e = Err("RateLimited", "Request rate limited.")
           /\ c \notin {404, 412, 419} =>
                /\ e.kind = "Unknown"
                /\ e.line = wire.reply.line
                /\ e.code = c
                /\ DecodeError(wire.reply.body) = "" => e.arg = MessageOf(wire.reply.body)
           /\ (Refused(last) /\ ~(c = 412 /\ last.op \in Conditional \cup {"Create"})) =>
                last.err = e

ErrorClassifierWitness ==
    /\ last.op = "GetEvent"
    /\ last.status = 500
    /\ wire.reply.body = MessageBody
    /\ last.err = [kind |-> "Unknown", arg |-> "oops", code |-> 500,
                   line |-> "500 Internal Server Error"]

\* C12 as stated has the event updates among the calls that expect 201.
ExpectedAsStated(op) == IF op \in EventUpdates THEN 201 ELSE Expected(op)

\* The first page fetch of an Iterator over this transport.
FirstFetch == IteratorNext(List(Nil), "wire")

(* C12 as stated: reads succeed only on 200, creates and updates of items and *)
(* of events only on 201, deletes and links only on 204; any other status     *)
(* gives a classified error and no entity.                                    *)
StatusContractAsStated ==
    (last.op # "" /\ last.status # 0) =>
        /\ last.err = NoErr => last.status = ExpectedAsStated(last.op)
        /\ last.status # ExpectedAsStated(last.op) =>
                Classified(last.err) /\ last.ret = Nil

(* C12, amended: reads (the page fetch of an Iterator among them) succeed     *)
(* only on 200, Create, Update, Item.Update and AddEvent only on 201,         *)
(* UpdateEvent and Event.Update, like the deletes and links, only on 204; any *)
(* other status, another 2xx included, gives a classified error and no        *)
(* entity.                                                                    *)
StatusContract ==
    /\ (last.op # "" /\ last.status # 0) =>
            /\ last.err = NoErr => last.status = Expected(last.op)
            /\ last.status # Expected(last.op) => Classified(last.err) /\ last.ret = Nil
    /\ wire.reply # Nil =>
            /\ FirstFetch.it.Error = NoErr => wire.reply.status = 200
            /\ wire.reply.status # 200 =>
                    ~FirstFetch.ret /\ Classified(FirstFetch.it.Error)

StatusContractWitness ==
    /\ last.op = "Create"
    /\ last.status = 204
    /\ wire.reply.headers
    /\ last.err.kind = "Unknown"
    /\ last.ret = Nil

(* C19: whenever emptyReply or jsonReply got a reply, its body has been read  *)
(* to the end of the stream when the call returns, also when the status is    *)
(* not the expected one and newError makes the error. (Stated for a transport *)
(* that reports the end of the stream together with the last bytes, so that   *)
(* a json.Decoder that has read a value has read the whole body.)             *)
BodyDrained ==
    (last.op # "" /\ last.status # 0 /\ wire.eof) => last.read = "eof"

-----------------------------------------------------------------------------
(* Listing: a populated collection, one Iterator constructed by List or      *)
(* ListEvents, and any sequence of Next / NextWithError / Get / GetEvent on   *)
(* it, over a transport that may fail on any fetch.                           *)

Policies == {"more", "full", "always"}
IterFaults == {"none", "net", "badBody", "badStatus"}

\* Both keys are live; at every millisecond ts the key "k1" has the events
\* with the ordinals 0 .. c[ts] - 1.
ListedKv ==
    [k \in Keys |-> <<[ref |-> RefStr(KeyIdx(k)), value |-> Itoa(KeyIdx(k)),
                       tomb |-> FALSE]>>]
EvRefNo(ts, ord) == Len(KeySeq) + (ts - 1) * (MaxOrd + 1) + ord + 1
ListedEvents(c) ==
    {[key |-> "k1", typ |-> EvType, ts |-> p[1], ord |-> p[2],
      ref |-> RefStr(EvRefNo(p[1], p[2])), value |-> Itoa(p[2] + 1)] :
        p \in {q \in (1..MaxTs) \X (0..MaxOrd) : q[2] < c[q[1]]}}

Limits == 0..MaxLimit
ListQueries ==
    {[NoListQuery EXCEPT !.Limit = l] : l \in Limits}
    \cup {[NoListQuery EXCEPT !.StartKey = k] : k \in Keys}
    \cup {[NoListQuery EXCEPT !.AfterKey = k] : k \in Keys}
    \cup {[NoListQuery EXCEPT !.BeforeKey = k] : k \in Keys}
    \cup {[NoListQuery EXCEPT !.EndKey = k] : k \in Keys}

BoundTimes == {TimeOfMs(ms) : ms \in 1..MaxTs}
ListEventsQueries ==
    {[NoListEventsQuery EXCEPT !.Limit = l] : l \in Limits}
    \cup {[NoListEventsQuery EXCEPT !.Start = t, !.StartOrdinal = o] :
            t \in BoundTimes, o \in 0..MaxOrd}
    \cup {[NoListEventsQuery EXCEPT !.End = t, !.EndOrdinal = o] :
            t \in BoundTimes, o \in 0..MaxOrd}
    \cup {[NoListEventsQuery EXCEPT !.After = t, !.AfterOrdinal = o] :
            t \in BoundTimes, o \in 0..MaxOrd}
    \cup {[NoListEventsQuery EXCEPT !.Before = t, !.BeforeOrdinal = o] :
            t \in BoundTimes, o \in 0..MaxOrd}

StoreVars == <<kv, events, nextRef, links, srv, OtherVars>>

DoList ==
    \E q \in ListQueries \cup {Nil} :
        /\ it = NoIterator
        /\ it' = List(q)
        /\ opts' = [op |-> "List", key |-> "", typ |-> "", query |-> q]
        /\ UNCHANGED <<last, fetches, yielded, stops>>
        /\ UNCHANGED StoreVars

DoListEvents ==
    \E k \in EvKeys, o \in ListEventsQueries \cup {Nil} :
        /\ it = NoIterator
        /\ it' = ListEvents(k, EvType, o)
        /\ opts' = [op |-> "ListEvents", key |-> k, typ |-> EvType, query |-> o]
        /\ UNCHANGED <<last, fetches, yielded, stops>>
        /\ UNCHANGED StoreVars

\* The caller's view after a call of Next / NextWithError that gave `n`.
Advance(op, err, n) ==
    /\ it' = n.it
    /\ fetches' = fetches \o n.sent
    /\ yielded' = IF n.ret THEN Append(yielded, n.it.results[n.it.index + 1]) ELSE yielded
    /\ stops' = IF n.ret THEN stops ELSE stops + 1
    /\ last' = [NoCall EXCEPT !.op = op, !.ret = Bool(n.ret), !.err = err]
    /\ UNCHANGED opts
    /\ UNCHANGED StoreVars

DoNext ==
    \E f \in Faults(IterFaults) :
        /\ it # NoIterator
        /\ last = NoCall
        /\ stops < MaxStops
        /\ Advance("Next", NoErr, IteratorNext(it, f))

DoNextWithError ==
    \E f \in Faults(IterFaults) :
        /\ it # NoIterator
        /\ last = NoCall
        /\ stops < MaxStops
        /\ Advance("NextWithError", NextWithError(it, f).err, NextWithError(it, f))

\* Get / GetEvent index results[index]: they are called on an element that
\* Next has loaded, or on an Iterator of the other kind, which they refuse
\* before they look at the element or the destination.
Loaded == it # NoIterator /\ it.index < Len(it.results)

Accessed(op, dest, g) ==
    /\ last' = [NoCall EXCEPT !.op = op, !.dest = dest, !.ret = g.ret, !.err = g.err,
                              !.dec = g.dec]
    /\ UNCHANGED <<it, opts, fetches, yielded, stops>>
    /\ UNCHANGED StoreVars

DoIteratorGet ==
    \E d \in Dests :
        /\ last = NoCall
        /\ IF Loaded THEN it.iteratingItems \/ d = "nil"
           ELSE it # NoIterator /\ ~it.iteratingItems /\ d = "nil"
        /\ Accessed("Iterator.Get", d, IteratorGet(it, d))

DoIteratorGetEvent ==
    \E d \in Dests :
        /\ last = NoCall
        /\ IF Loaded THEN it.iteratingEvents \/ d = "nil"
           ELSE it # NoIterator /\ ~it.iteratingEvents /\ d = "nil"
        /\ Accessed("Iterator.GetEvent", d, IteratorGetEvent(it, d))

InitIter ==
    /\ kv = ListedKv
    /\ events \in {ListedEvents(c) : c \in [1..MaxTs -> 0..(MaxOrd + 1)]}
    /\ nextRef = Len(KeySeq) + MaxTs * (MaxOrd + 1) + 1
    /\ last = NoCall
    /\ it = NoIterator
    /\ opts = Nil
    /\ fetches = <<>>
    /\ yielded = <<>>
    /\ stops = 0
    /\ srv \in Policies
    /\ wire = NoWire
    /\ apiHost = DefaultAPIHost
    /\ px = <<>>
    /\ thr = <<>>
    /\ clients = <<>>
    /\ links = {}

NextIter ==
    \/ DoList
    \/ DoListEvents
    \/ DoNext
    \/ DoNextWithError
    \/ DoIteratorGet
    \/ DoIteratorGetEvent
    \/ Discard

SpecIter == InitIter /\ [][NextIter]_vars

-----------------------------------------------------------------------------
(* Properties of the Iterator, under SpecIter *)

NextOps == {"Next", "NextWithError"}

\* The URL the Iterator was constructed with.
FirstUrl ==
    IF opts.op = "List" THEN List(opts.query).next
    ELSE ListEvents(opts.key, opts.typ, opts.query).next

\* What the listing holds in total: the (key) or (timestamp, ordinal) of
\* every stored element that the query of the constructing call selects.
Listed ==
    IF opts.op = "List"
    THEN {<<k>> : k \in {x \in Keys : Live(SrvState, x) /\ KeyMatches(x, FirstUrl.query)}}
    ELSE {<<e.ts, e.ord>> : e \in {x \in events : /\ x.key = opts.key
                                                  /\ x.typ = opts.typ
                                                  /\ EvMatches(x, FirstUrl.query)}}
Total == Cardinality(Listed)
PerPage == PageLimit(FirstUrl.query)
CeilDiv(n, l) == (n + l - 1) \div l

\* Next has returned false, and the transport has delivered every reply.
Exhausted == it # NoIterator /\ stops >= 1
Undisturbed == \A j \in 1..Len(fetches) : fetches[j].fault = "none"

\* Whether the service put a "next" URL on the last page that held results.
LastPageHadNext ==
    Total > 0 /\ GivesNext(srv, Total - PerPage * (CeilDiv(Total, PerPage) - 1), PerPage, 0)

(* C3 as stated: a listing of N >= 0 items served in pages of L >= 1 makes    *)
(* Next return true exactly N times with exactly ceil(N/L) fetches, and the   *)
(* final Next returns false with Error nil.                                   *)
ExhaustionInCeilFetches ==
    (Exhausted /\ Undisturbed /\ opts.query # Nil /\ opts.query.Limit >= 1) =>
        /\ Len(yielded) = Total
        /\ Len(fetches) = CeilDiv(Total, PerPage)
        /\ it.Error = NoErr
        /\ last.op \in NextOps => last.ret = Bool(FALSE)

(* C3, amended: Next returns true exactly N times and the final Next returns  *)
(* false with Error nil; the fetches are ceil(N/L), plus one when the listing *)
(* is empty or the last page that held results carried a "next" URL (that     *)
(* fetch brings the empty page).                                              *)
ExhaustionFetches ==
    (Exhausted /\ Undisturbed) =>
        /\ Len(yielded) = Total
        /\ Len(fetches) = CeilDiv(Total, PerPage)
                          + (IF Total = 0 \/ LastPageHadNext THEN 1 ELSE 0)
        /\ it.Error = NoErr
        /\ last.op \in NextOps => last.ret = Bool(FALSE)

ExhaustionWitness ==
    /\ Exhausted
    /\ Undisturbed
    /\ opts.query # Nil
    /\ opts.query.Limit = 2
    /\ Total = 3
    /\ Len(fetches) = 2
    /\ last.op = "Next"

(* C4: a call of Next while unconsumed elements remain in the current page    *)
(* only increments the index and issues no request, so a request is issued    *)
(* only by a call made on the last element of a page.                         *)
InPageNextIsLocal ==
    [][(/\ it # NoIterator
        /\ last = NoCall
        /\ last'.op \in NextOps) =>
            /\ it.index < Len(it.results) - 1 =>
                    /\ it' = [it EXCEPT !.index = @ + 1]
                    /\ fetches' = fetches
                    /\ last'.ret = Bool(TRUE)
            /\ fetches' # fetches => it.index >= Len(it.results) - 1]_vars

InPageNextWitness ==
    /\ it # NoIterator
    /\ last.op = "Next"
    /\ last.ret = Bool(TRUE)
    /\ it.index = 1
    /\ Len(fetches) = 1

(* C5: once Next has returned false, because the listing ended or because an  *)
(* error was stored in Error, every later Next and NextWithError returns      *)
(* false, issues no request and leaves Error (and the Iterator) as it was.    *)
StoppedIsAbsorbing ==
    [][(/\ it # NoIterator
        /\ stops >= 1
        /\ last = NoCall
        /\ last'.op \in NextOps) =>
            /\ it.done \/ it.Error # NoErr
            /\ last'.ret = Bool(FALSE)
            /\ fetches' = fetches
            /\ it'.Error = it.Error
            /\ it' = it
            /\ last'.op = "NextWithError" => last'.err = it.Error]_vars

StoppedWitness ==
    /\ it # NoIterator
    /\ stops >= 2
    /\ it.Error # NoErr
    /\ last.op = "NextWithError"
    /\ last.err = it.Error

\* The (timestamp, ordinal) of the events the Iterator has yielded.
YieldedEvents == {<<yielded[j].Timestamp, yielded[j].Ordinal>> : j \in 1..Len(yielded)}
StoredAt(t, o) == \E e \in events : e.key = opts.key /\ e.ts = UnixMs(t) /\ e.ord = o
\* (timestamp, ordinal) of the stored events of the key, compared with a bound
EventsWhere(Sel(_, _)) ==
    {<<e.ts, e.ord>> : e \in {x \in events : x.key = opts.key /\ Sel(x.ts, x.ord)}}
Later(ts, ord, t, o) == ts > UnixMs(t) \/ (ts = UnixMs(t) /\ ord > o)
Earlier(ts, ord, t, o) == ts < UnixMs(t) \/ (ts = UnixMs(t) /\ ord < o)

(* C8: for an event e[k] stored at (ts, ord), ordinal 0 included, ListEvents  *)
(* with After = (ts, ord) yields exactly the events after e[k], with Before   *)
(* exactly those before it, with Start / End exactly those from / up to e[k]. *)
RangeFilterExact ==
    (Exhausted /\ Undisturbed /\ opts.op = "ListEvents" /\ opts.query # Nil) =>
        LET q == opts.query IN
        /\ Len(yielded) = Cardinality(YieldedEvents)
        /\ (q.After # DefaultTime /\ StoredAt(q.After, q.AfterOrdinal)) =>
                YieldedEvents =
                    EventsWhere(LAMBDA ts, ord : Later(ts, ord, q.After, q.AfterOrdinal))
        /\ (q.Before # DefaultTime /\ StoredAt(q.Before, q.BeforeOrdinal)) =>
                YieldedEvents =
                    EventsWhere(LAMBDA ts, ord : Earlier(ts, ord, q.Before, q.BeforeOrdinal))
        /\ (q.Start # DefaultTime /\ StoredAt(q.Start, q.StartOrdinal)) =>
                YieldedEvents =
                    EventsWhere(LAMBDA ts, ord : ~Earlier(ts, ord, q.Start, q.StartOrdinal))
        /\ (q.End # DefaultTime /\ StoredAt(q.End, q.EndOrdinal)) =>
                YieldedEvents =
                    EventsWhere(LAMBDA ts, ord : ~Later(ts, ord, q.End, q.EndOrdinal))

\* What the wrong accessor gives on an Iterator, whatever the destination.
WrongAccessorRefused(i) ==
    /\ ~i.iteratingItems =>
            \A d \in Dests :
                IteratorGet(i, d) = [ret |-> Nil, dec |-> NoVal,
                                     err |-> Err("Local", "Not an Item Iterator.")]
    /\ ~i.iteratingEvents =>
            \A d \in Dests :
                IteratorGetEvent(i, d) = [ret |-> Nil, dec |-> NoVal,
                                          err |-> Err("Local", "Not an Event Iterator.")]

ItemIterator(i) == i.iteratingItems /\ ~i.iteratingEvents
EventIterator(i) == i.iteratingEvents /\ ~i.iteratingItems

(* C13: the constructor fixes the kind of an Iterator (List, Search, History  *)
(* and GetLinks: items; ListEvents: events), no call changes it afterwards,   *)
(* and in every state of the Iterator, fresh and exhausted included, the      *)
(* wrong accessor returns a nil entity and an error.                          *)
KindFixedAtConstruction ==
    [][/\ ItemIterator(Search("*", Nil))
       /\ ItemIterator(History("k1", Nil))
       /\ ItemIterator(GetLinks("k1", Nil, <<LinkKind>>))
       /\ it' # NoIterator =>
            /\ opts'.op = "List" => ItemIterator(it')
            /\ opts'.op = "ListEvents" => EventIterator(it')
            /\ it # NoIterator => /\ it'.iteratingItems = it.iteratingItems
                                  /\ it'.iteratingEvents = it.iteratingEvents
            /\ WrongAccessorRefused(it')
            /\ (last'.op = "Iterator.Get" /\ ~it.iteratingItems) =>
                    last'.ret = Nil /\ last'.err # NoErr
            /\ (last'.op = "Iterator.GetEvent" /\ ~it.iteratingEvents) =>
                    last'.ret = Nil /\ last'.err # NoErr]_vars

WrongAccessorWitness ==
    /\ it # NoIterator
    /\ it.done
    /\ ~it.iteratingItems
    /\ last.op = "Iterator.Get"
    /\ last.ret = Nil
    /\ last.err = Err("Local", "Not an Item Iterator.")

\* A constructor has only built the Iterator.
Fresh(i) == i.Error = NoErr /\ ~i.done /\ i.results = <<>> /\ i.index = 0

(* C14: the constructors issue no request and cannot fail; the first request  *)
(* of an Iterator is issued by its first Next, for exactly the URL the        *)
(* constructor built; a failure of the transport first shows as Next          *)
(* returning false with Error set.                                            *)
FirstRequestByNext ==
    [][/\ Fresh(Search("*", Nil))
       /\ Fresh(History("k1", Nil))
       /\ Fresh(GetLinks("k1", Nil, <<LinkKind>>))
       /\ (it = NoIterator /\ it' # NoIterator) =>
            /\ Fresh(it')
            /\ it'.next = FirstUrl'
            /\ fetches' = <<>>
            /\ SrvState' = SrvState
       /\ (it # NoIterator /\ fetches = <<>> /\ fetches' # <<>>) =>
            /\ last'.op \in NextOps
            /\ Len(yielded) = 0 /\ stops = 0
            /\ Len(fetches') = 1
            /\ fetches'[1].req = Request("GET", FirstUrl.path, FirstUrl.query,
                                         NoHeaders, "")
            /\ fetches'[1].fault = "net" =>
                    last'.ret = Bool(FALSE) /\ it'.Error.kind = "Net"
       /\ (it # NoIterator /\ it'.Error # it.Error) =>
            /\ last'.op \in NextOps
            /\ last'.ret = Bool(FALSE)
            /\ fetches' # fetches]_vars

TransportFailureWitness ==
    /\ it # NoIterator
    /\ Len(fetches) = 1
    /\ fetches[1].fault = "net"
    /\ last.op = "Next"
    /\ last.ret = Bool(FALSE)
    /\ it.Error.kind = "Net"

Accessors == {"Iterator.Get", "Iterator.GetEvent"}

\* The entity that stands at results[index] of the Iterator.
CurrentEntity(i) ==
    LET r == i.results[i.index + 1]
    IN IF i.iteratingItems THEN Item(r.Key, r.Ref, r.Value)
       ELSE Event(r.Key, r.Type, TimeOfMs(r.Timestamp), r.Ordinal, r.Ref, r.Value)

(* C23: Iterator.Get and Iterator.GetEvent issue no request and change no     *)
(* field of the Iterator; called repeatedly between two calls of Next they    *)
(* return an equal entity each time, whatever the destination; when decoding  *)
(* into the destination fails they return the whole entity together with the  *)
(* decode error, and Error and the cursor stay as they were.                  *)
AccessorsOnlyRead ==
    [][(last = NoCall /\ last'.op \in Accessors) =>
            /\ it' = it
            /\ fetches' = fetches
            /\ SrvState' = SrvState
            /\ (Loaded /\ last'.err.arg \notin {"Not an Item Iterator.",
                                                "Not an Event Iterator."}) =>
                    /\ last'.ret = CurrentEntity(it)
                    /\ last'.dest = "jsonUnmarshalError" =>
                            last'.err = Err("Local", "JSON UNMARSHAL ERROR")
                    /\ last'.dest \in {"nil", "int"} => last'.err = NoErr
                    /\ \A d \in Dests :
                            IF it.iteratingItems
                            THEN IteratorGet(it', d).ret = last'.ret
                            ELSE IteratorGetEvent(it', d).ret = last'.ret]_vars

DecodeFailureWitness ==
    /\ Loaded
    /\ it.index = 1
    /\ last.op = "Iterator.Get"
    /\ last.dest = "jsonUnmarshalError"
    /\ last.err = Err("Local", "JSON UNMARSHAL ERROR")
    /\ last.ret = CurrentEntity(it)
    /\ it.Error = NoErr

\* The last n elements that were yielded.
LastYielded(n) == SubSeq(yielded, Len(yielded) - n + 1, Len(yielded))

(* C24: Next decides in two places that the listing has ended. A fetched page *)
(* without results ends it at once (Next returns false, Error nil), also when *)
(* the page carries a "next" URL. A page with results and no "next" URL has   *)
(* all its elements yielded, and the Next that follows the last of them ends  *)
(* the iteration without a request.                                           *)
ExhaustionInTwoPlaces ==
    [][(/\ it # NoIterator
        /\ last = NoCall
        /\ last'.op \in NextOps
        /\ ~it.done
        /\ it.Error = NoErr) =>
            /\ (/\ fetches' # fetches
                /\ fetches'[Len(fetches')].fault = "none"
                /\ it'.results = <<>>) =>
                    /\ last'.ret = Bool(FALSE)
                    /\ it'.Error = NoErr
                    /\ it'.done
            /\ (/\ it.results # <<>>
                /\ it.index = Len(it.results) - 1
                /\ it.next = EmptyUrl) =>
                    /\ fetches' = fetches
                    /\ last'.ret = Bool(FALSE)
                    /\ it'.Error = NoErr
                    /\ it'.done
                    /\ Len(yielded) >= Len(it.results)
                    /\ LastYielded(Len(it.results)) = it.results]_vars

EmptyPageWithNextWitness ==
    /\ it # NoIterator
    /\ it.done
    /\ it.Error = NoErr
    /\ it.results = <<>>
    /\ it.next # EmptyUrl
    /\ Len(fetches) = 2
    /\ Len(yielded) = 2
    /\ last.op = "Next"
    /\ last.ret = Bool(FALSE)

\* A page with results and no "next" URL has ended the listing.
EmptyNextUrlEnds ==
    /\ it # NoIterator
    /\ it.done
    /\ it.results # <<>>
    /\ it.next = EmptyUrl
    /\ Len(fetches) = 1
    /\ last.op = "Next"
    /\ last.ret = Bool(FALSE)

\* The four states of an Iterator.
IsFresh(i) == i.Error = NoErr /\ ~i.done /\ i.results = <<>> /\ i.index = 0
IsInPage(i) ==
    i.Error = NoErr /\ ~i.done /\ i.results # <<>> /\ i.index \in 0..(Len(i.results) - 1)
IsExhausted(i) == i.done /\ i.Error = NoErr
IsErrored(i) == i.Error # NoErr /\ ~i.done

(* C26: in every state that calls of Next lead to from a constructed Iterator *)
(* the Iterator is in exactly one of the states fresh, in-page, exhausted and *)
(* errored: done and a non-nil Error are never both set.                      *)
OneStateAtATime ==
    it # NoIterator =>
        /\ ~(it.done /\ it.Error # NoErr)
        /\ Cardinality({n \in 1..4 :
                            \/ n = 1 /\ IsFresh(it)
                            \/ n = 2 /\ IsInPage(it)
                            \/ n = 3 /\ IsExhausted(it)
                            \/ n = 4 /\ IsErrored(it)}) = 1

ErroredInPageWitness ==
    /\ it # NoIterator
    /\ IsErrored(it)
    /\ it.results # <<>>
    /\ stops = 2
    /\ last.op = "Next"

(* C27: whenever Next returns true, Error is nil, done is false and           *)
(* 0 <= index < len(results), so the accessor indexes inside the page; a test *)
(* of Error in the body of a `for it.Next()` loop therefore never sees an     *)
(* error.                                                                     *)
TrueNextIsInPage ==
    (it # NoIterator /\ last.op \in NextOps /\ last.ret = Bool(TRUE)) =>
        /\ it.Error = NoErr
        /\ ~it.done
        /\ 0 <= it.index
        /\ it.index < Len(it.results)
        /\ last.op = "NextWithError" => last.err = NoErr

TrueNextWitness ==
    /\ it # NoIterator
    /\ last.op = "Next"
    /\ last.ret = Bool(TRUE)
    /\ Len(fetches) = 2
    /\ it.index = Len(it.results) - 1

(* C28: a call of Next whose page fetch fails (the transport fails, the       *)
(* status is not 200, or the body cannot be decoded) changes nothing but      *)
(* Error: the page held, the index and the "next" URL are as before, and the  *)
(* accessor still returns the element yielded last.                           *)
FailedFetchOnlySetsError ==
    [][(/\ it # NoIterator
        /\ last = NoCall
        /\ last'.op \in NextOps
        /\ fetches' # fetches
        /\ fetches'[Len(fetches')].fault # "none") =>
            /\ it'.Error # NoErr
            /\ it' = [it EXCEPT !.Error = it'.Error]
            /\ last'.ret = Bool(FALSE)
            /\ Len(yielded) > 0 =>
                    /\ yielded' = yielded
                    /\ it'.index < Len(it'.results)
                    /\ it'.results[it'.index + 1] = yielded[Len(yielded)]]_vars

FailedFetchWitness ==
    /\ it # NoIterator
    /\ Len(fetches) = 2
    /\ fetches[2].fault = "badStatus"
    /\ it.Error.kind = "Unknown"
    /\ it.Error.code = 500
    /\ Len(yielded) > 0
    /\ it.results[it.index + 1] = yielded[Len(yielded)]
    /\ it.next # EmptyUrl

\* The iteration has ended normally: Next has returned false, Error is nil.
EndedNormally == it # NoIterator /\ it.done /\ it.Error = NoErr /\ stops >= 1
\* The size of the last page of the listing that holds results.
FinalPageSize == Total - PerPage * (CeilDiv(Total, PerPage) - 1)

(* C30 as stated: after the iteration has ended normally the Iterator holds   *)
(* the last non-empty page it yielded: len(results) is the size of the final  *)
(* page of the listing and index designates the element yielded last, however *)
(* the listing ended.                                                         *)
EndedHoldsLastPage ==
    (EndedNormally /\ Total > 0) =>
        /\ Len(it.results) = FinalPageSize
        /\ it.index = FinalPageSize - 1
        /\ it.results[it.index + 1] = yielded[Len(yielded)]

(* C30, amended: after the iteration has ended normally the Iterator holds    *)
(* the page it fetched last. When the listing ended on a page without a       *)
(* "next" URL, that is the final page of the listing and index designates the *)
(* element yielded last; when it ended on a fetched page without results,     *)
(* results is empty and index is left where it was, past the end of results.  *)
EndedHoldsLastFetched ==
    EndedNormally =>
        IF Total = 0 \/ LastPageHadNext
        THEN /\ it.results = <<>>
             /\ it.index = IF Total = 0 THEN 0 ELSE FinalPageSize - 1
             /\ Len(yielded) = Total
        ELSE /\ Len(it.results) = FinalPageSize
             /\ it.index = FinalPageSize - 1
             /\ it.results[it.index + 1] = yielded[Len(yielded)]

EndedOnEmptyPageWitness ==
    /\ EndedNormally
    /\ it.results = <<>>
    /\ it.index = 1
    /\ Len(yielded) = 2
    /\ Len(fetches) = 2

-----------------------------------------------------------------------------
(* The proxy (web.go): every request to /api/<collection> runs `search` in a *)
(* goroutine of its own, all of them on the one Client `orc`. A handler sets *)
(* orc.APIHost, builds a Search from the request's parameters, walks the     *)
(* Iterator and writes the results, or the error, as the response.           *)

ProxyDefaultLimit == 10
Handlers == {"h1", "h2"}
ProxyHost == "api.orchestrate.io"     \* the package variable `host`
TornHost == "torn"                    \* a string read while it is being written
ProxyLimits == {""} \cup {Itoa(l) : l \in 1..MaxLimit}
ProxyOffsets == {"", "1"}
ProxyFaults == {"none", "net", "badBody", "noValue"}

\* strconv.ParseInt(text, 10, 32), and the value the handler takes on an error
ParseInt(text, default) == IF IsNum(text) THEN Atoi(text) ELSE default

IdleHandler ==
    [pc |-> "idle", limit |-> "", offset |-> "", it |-> NoIterator, results |-> <<>>,
     err |-> NoErr, failed |-> FALSE, hosts |-> <<>>, body |-> Nil]

ProxyFrame == <<kv, events, nextRef, links, last, it, opts, fetches, yielded, stops, srv,
                wire, thr, clients>>

\* A request arrives with its limit and offset parameters.
Arrive(p) ==
    \E l \in ProxyLimits, o \in ProxyOffsets :
        /\ px.run[p].pc = "idle"
        /\ px' = [px EXCEPT !.run[p] = [@ EXCEPT !.pc = "start", !.limit = l,
                                                 !.offset = o]]
        /\ UNCHANGED apiHost
        /\ UNCHANGED ProxyFrame

\* if host != "" { orc.APIHost = host } ... it := c.Search(query, searchParms)
SetHost(p) ==
    /\ px.run[p].pc = "start"
    /\ apiHost' = IF px.host # "" THEN px.host ELSE apiHost
    /\ px' = [px EXCEPT !.run[p] =
                [@ EXCEPT !.pc = "loop",
                          !.it = Search("*",
                                    [Limit |-> ParseInt(px.run[p].limit, ProxyDefaultLimit),
                                     Offset |-> ParseInt(px.run[p].offset, 0),
                                     Sort |-> ""])]]
    /\ UNCHANGED ProxyFrame

\* The handler is about to assign orc.APIHost / about to read it in doRequest.
WritePending(p) == px.run[p].pc = "start" /\ px.host # ""
ReadPending(p) ==
    px.run[p].pc = "loop" /\ IteratorNext(px.run[p].it, "none").sent # <<>>

\* What doRequest can read from c.APIHost: while another handler assigns the
\* field the read is unsynchronised and gives the old string, the new one, or
\* a mix of the two.
ReadHosts(p) ==
    IF \E q \in Handlers \ {p} : WritePending(q)
    THEN {apiHost, px.host} \cup (IF apiHost # px.host THEN {TornHost} ELSE {})
    ELSE {apiHost}

\* One turn of `for i := 0; it.Next(); i++ { ... }`
ProxyLoop(p) ==
    \E f \in ProxyFaults, hst \in ReadHosts(p) :
        LET Turn(h, n) ==
                IF ~n.ret
                THEN [h EXCEPT !.it = n.it, !.pc = "reply",
                               !.hosts = @ \o (IF n.sent # <<>> THEN <<hst>> ELSE <<>>)]
                ELSE IF n.it.Error # NoErr
                THEN [h EXCEPT !.it = n.it, !.pc = "reply", !.err = n.it.Error,
                               !.hosts = @ \o (IF n.sent # <<>> THEN <<hst>> ELSE <<>>)]
                ELSE IF IteratorGet(n.it, "RawMessage").err # NoErr
                THEN [h EXCEPT !.it = n.it, !.pc = "reply", !.failed = TRUE,
                               !.hosts = @ \o (IF n.sent # <<>> THEN <<hst>> ELSE <<>>)]
                ELSE [h EXCEPT !.it = n.it,
                               !.results = Append(@, IteratorGet(n.it, "RawMessage").ret.Value),
                               !.hosts = @ \o (IF n.sent # <<>> THEN <<hst>> ELSE <<>>)]
        IN /\ px.run[p].pc = "loop"
           /\ px' = [px EXCEPT !.run[p] =
                        Turn(@, IteratorNext(@.it, IF hst = TornHost THEN "net" ELSE f))]
           /\ UNCHANGED apiHost
           /\ UNCHANGED ProxyFrame

\* results.Count = len(results.Results); encoder.Encode(err) if err != nil,
\* else encoder.Encode(&results); ctx.Write
ProxyReply(p) ==
    /\ px.run[p].pc = "reply"
    /\ px' = [px EXCEPT !.run[p] =
                [@ EXCEPT !.pc = "done",
                          !.body = IF px.run[p].err # NoErr
                                   THEN [kind |-> "error", err |-> px.run[p].err]
                                   ELSE [kind |-> "results",
                                         results |-> px.run[p].results,
                                         count |-> Len(px.run[p].results)]]]
    /\ UNCHANGED apiHost
    /\ UNCHANGED ProxyFrame

InitProxy ==
    /\ kv = ListedKv
    /\ events = {}
    /\ nextRef = Len(KeySeq) + 1
    /\ last = NoCall
    /\ it = NoIterator
    /\ opts = Nil
    /\ fetches = <<>>
    /\ yielded = <<>>
    /\ stops = 0
    /\ srv \in Policies
    /\ wire = NoWire
    /\ apiHost = DefaultAPIHost
    /\ px \in [host : {"", ProxyHost}, run : {[p \in Handlers |-> IdleHandler]}]
    /\ thr = <<>>
    /\ clients = <<>>
    /\ links = {}

NextProxy ==
    \/ \E p \in Handlers : Arrive(p)
    \/ \E p \in Handlers : SetHost(p)
    \/ \E p \in Handlers : ProxyLoop(p)
    \/ \E p \in Handlers : ProxyReply(p)

SpecProxy == InitProxy /\ [][NextProxy]_vars

\* The handlers that have written their response.
Answered == {p \in Handlers : px.run[p].pc = "done"}

(* C15: the response of the proxy is capped to a page: its results array      *)
(* holds at most `limit` entries however many items match, and count is the   *)
(* length of the results array.                                               *)
ProxyPageCapped ==
    \A p \in Answered :
        px.run[p].body.kind = "results" =>
            /\ Len(px.run[p].body.results) <= ParseInt(px.run[p].limit, ProxyDefaultLimit)
            /\ px.run[p].body.count = Len(px.run[p].body.results)

(* C16: when the Search of the proxy fails (the Iterator ends with Error set, *)
(* or decoding a result fails), the body of the response is the error's JSON  *)
(* and not a results object.                                                  *)
ProxyReportsFailure ==
    \A p \in Answered :
        (px.run[p].it.Error # NoErr \/ px.run[p].failed) =>
            px.run[p].body.kind = "error"

(* C17: calls made concurrently through one Client share no mutable state: no *)
(* call path writes a Client field, so no handler assigns a field of the      *)
(* Client while another one is about to read it.                              *)
ClientUnshared ==
    \A p \in Handlers : \A q \in Handlers \ {p} : ~(WritePending(p) /\ ReadPending(q))

-----------------------------------------------------------------------------
(* Two goroutines call Next on one Iterator without a lock. Next is not one  *)
(* step here: it reads the fields of the Iterator, then writes the index, or *)
(* asks the service and writes the page, and then returns; the statements of *)
(* the other goroutine's call can come between any two of these.             *)

Goroutines == {"g1", "g2"}
RaceFaults == {"none", "net"}

IdleGoroutine == [pc |-> "idle", idx |-> 0, url |-> EmptyUrl, page |-> Nil, val |-> FALSE]

\* Variant of the test of Next with a plausible defect: the last element of a
\* page is never stepped onto.
NextInPageSkipsLast(i) == i.index < Len(i.results) - 2

\* if i.index < len(i.results)-1
NextInPage(i) == i.index < Len(i.results) - 1

RaceFrame == <<kv, events, nextRef, links, last, opts, srv, wire, apiHost, px, clients>>

\* A call of Next starts while no other call on the Iterator is running.
Serialized(t) == \A u \in Goroutines \ {t} : thr.run[u].pc = "idle"

\* if i.done ... else if i.Error != nil ... if i.index < len(i.results)-1 ...
\* if i.next == "" { i.done = true; return false }
NextBegin(t) ==
    /\ thr.run[t].pc = "idle"
    /\ stops < MaxStops
    /\ IF it.done \/ it.Error # NoErr
       THEN /\ thr' = [thr EXCEPT !.run[t] = [@ EXCEPT !.pc = "ret", !.val = FALSE],
                                  !.overlap = @ \/ ~Serialized(t)]
            /\ UNCHANGED it
       ELSE IF NextInPage(it)
       THEN /\ thr' = [thr EXCEPT !.run[t] = [@ EXCEPT !.pc = "inc", !.idx = it.index],
                                  !.overlap = @ \/ ~Serialized(t)]
            /\ UNCHANGED it
       ELSE IF it.next = EmptyUrl
       THEN /\ thr' = [thr EXCEPT !.run[t] = [@ EXCEPT !.pc = "ret", !.val = FALSE],
                                  !.overlap = @ \/ ~Serialized(t)]
            /\ it' = [it EXCEPT !.done = TRUE]
       ELSE /\ thr' = [thr EXCEPT !.run[t] = [@ EXCEPT !.pc = "fetch", !.url = it.next],
                                  !.overlap = @ \/ ~Serialized(t)]
            /\ UNCHANGED it
    /\ UNCHANGED <<fetches, yielded, stops>>
    /\ UNCHANGED RaceFrame

\* i.index += 1; return true: the write of the sum
NextIncrement(t) ==
    /\ thr.run[t].pc = "inc"
    /\ it' = [it EXCEPT !.index = thr.run[t].idx + 1]
    /\ thr' = [thr EXCEPT !.run[t] = [@ EXCEPT !.pc = "ret", !.val = TRUE]]
    /\ UNCHANGED <<fetches, yielded, stops>>
    /\ UNCHANGED RaceFrame

\* _, err := i.client.jsonReply("GET", i.next, nil, 200, &results);
\* if err != nil { i.Error = err; return false }
NextFetch(t) ==
    \E f \in RaceFaults :
        LET Got(r) ==
                IF r.err # NoErr
                THEN /\ it' = [it EXCEPT !.Error = r.err]
                     /\ thr' = [thr EXCEPT !.run[t] = [@ EXCEPT !.pc = "ret", !.val = FALSE]]
                ELSE /\ UNCHANGED it
                     /\ thr' = [thr EXCEPT !.run[t] = [@ EXCEPT !.pc = "store",
                                                                 !.page = r.resp.body],
                                           !.pages = Append(@, r.resp.body.Results)]
        IN /\ thr.run[t].pc = "fetch"
           /\ fetches' = Append(fetches, [fault |-> f, req |-> NextRequest(thr.run[t].url)])
           /\ Got(jsonReply(NextRequest(thr.run[t].url), 200, "jsonList", f, 0))
           /\ UNCHANGED <<yielded, stops>>
           /\ UNCHANGED RaceFrame

\* i.next = ...; i.results = results.Results; if len(results.Results) == 0
\* { i.done = true } else { i.index = 0 }; return !i.done
NextStore(t) ==
    LET Stored(i, page) ==
            IF Len(page.Results) = 0
            THEN [i EXCEPT !.next = TrimPrefix(page.Next), !.results = page.Results,
                           !.done = TRUE]
            ELSE [i EXCEPT !.next = TrimPrefix(page.Next), !.results = page.Results,
                           !.index = 0]
    IN /\ thr.run[t].pc = "store"
       /\ it' = Stored(it, thr.run[t].page)
       /\ thr' = [thr EXCEPT !.run[t] = [@ EXCEPT !.pc = "ret", !.page = Nil,
                                                   !.val = ~Stored(it, thr.run[t].page).done]]
       /\ UNCHANGED <<fetches, yielded, stops>>
       /\ UNCHANGED RaceFrame

\* Next returns to its caller: on true the caller has the element the
\* Iterator is positioned on now.
NextReturn(t) ==
    /\ thr.run[t].pc = "ret"
    /\ thr' = [thr EXCEPT !.run[t] = IdleGoroutine]
    /\ yielded' = IF thr.run[t].val /\ it.index < Len(it.results)
                  THEN Append(yielded, it.results[it.index + 1]) ELSE yielded
    /\ stops' = IF thr.run[t].val THEN stops ELSE stops + 1
    /\ UNCHANGED <<it, fetches>>
    /\ UNCHANGED RaceFrame

RaceQueries == {[NoListQuery EXCEPT !.Limit = l] : l \in 1..MaxLimit}

InitRace ==
    /\ kv = ListedKv
    /\ events = {}
    /\ nextRef = Len(KeySeq) + 1
    /\ last = NoCall
    /\ \E q \in RaceQueries :
          /\ it = List(q)
          /\ opts = [op |-> "List", key |-> "", typ |-> "", query |-> q]
    /\ fetches = <<>>
    /\ yielded = <<>>
    /\ stops = 0
    /\ srv \in Policies
    /\ wire = NoWire
    /\ apiHost = DefaultAPIHost
    /\ px = <<>>
    /\ thr = [run |-> [t \in Goroutines |-> IdleGoroutine], overlap |-> FALSE,
              pages |-> <<>>]
    /\ clients = <<>>
    /\ links = {}

NextRace ==
    \/ \E t \in Goroutines : NextBegin(t)
    \/ \E t \in Goroutines : NextIncrement(t)
    \/ \E t \in Goroutines : NextFetch(t)
    \/ \E t \in Goroutines : NextStore(t)
    \/ \E t \in Goroutines : NextReturn(t)

SpecRace == InitRace /\ [][NextRace]_vars

\* The same URL was asked of the service twice.
FetchedTwice ==
    \E j \in 1..Len(fetches) : \E k \in (j + 1)..Len(fetches) :
        fetches[j].req = fetches[k].req

\* No call is running and none will return true any more.
Quiescent ==
    /\ \A t \in Goroutines : thr.run[t].pc = "idle"
    /\ it.done \/ it.Error # NoErr

\* An element of a fetched page that no Next that returned true left the
\* Iterator positioned on.
Skipped ==
    /\ Quiescent
    /\ \E j \in 1..Len(thr.pages) : \E k \in 1..Len(thr.pages[j]) :
          \A y \in 1..Len(yielded) : yielded[y] # thr.pages[j][k]

(* C18: an Iterator is not safe for concurrent Next: as long as the caller    *)
(* serializes the calls of Next no URL is fetched twice and no element of a   *)
(* fetched page is skipped; with two calls interleaved both are reachable.    *)
SerializedNextIsSound == ~thr.overlap => ~FetchedTwice /\ ~Skipped

InterleavedNextWitness == thr.overlap /\ FetchedTwice /\ Skipped

-----------------------------------------------------------------------------
(* Timestamps of events: the caller's time.Time goes out as milliseconds, and *)
(* the milliseconds of the service come back as a time.Time. The conversions  *)
(* are applied to times on both sides of the epoch, and the event calls are   *)
(* made with the times they give.                                             *)

\* the seconds -1, 0 and 1 of the epoch and the last milliseconds whose
\* nanoseconds an int64 holds, and the milliseconds around them
LastMs == MaxInt64 \div NsPerMs
MsRange ==
    {sec * MsPerSec + off : sec \in -1..1, off \in (-MaxMsOff)..MaxMsOff}
    \cup {sign * LastMs + off : sign \in {-1, 1}, off \in (-MaxMsOff)..MaxMsOff}
SubMs == {0 - SubMsNs, 0, SubMsNs}

\* time.Unix(ms/1000, (ms%1000)*1000000), and UnixNano()/1000000 of the result
DoTimeOfMs ==
    \E ms \in MsRange :
        /\ last = NoCall
        /\ last' = [NoCall EXCEPT !.op = "time.Unix", !.val = [typ |-> "int", n |-> ms],
                                  !.ts = TimeOfMs(ms),
                                  !.dec = [typ |-> "int", n |-> UnixMs(TimeOfMs(ms))]]
        /\ UNCHANGED <<kv, events, nextRef, links>>
        /\ UNCHANGED IterVars

\* ts.UnixNano()/1000000 of a caller's time
DoUnixMs ==
    \E ms \in MsRange, d \in SubMs :
        /\ last = NoCall
        /\ last' = [NoCall EXCEPT !.op = "UnixNano", !.ts = Time(ms * NsPerMs + d),
                                  !.dec = [typ |-> "int",
                                           n |-> UnixMs(Time(ms * NsPerMs + d))]]
        /\ UNCHANGED <<kv, events, nextRef, links>>
        /\ UNCHANGED IterVars

NextTime ==
    \/ DoTimeOfMs
    \/ DoUnixMs
    \/ DoAddEvent
    \/ DoAddEventWithTimestamp
    \/ DoGetEvent
    \/ DoUpdateEvent
    \/ Discard

SpecTime == Init /\ [][NextTime]_vars

Abs(n) == IF n >= 0 THEN n ELSE 0 - n

(* C25: the timestamp of an event is sent as the caller's time truncated to   *)
(* whole milliseconds; the Timestamp of an Event that AddEvent,               *)
(* AddEventWithTimestamp, UpdateEvent or GetEvent returns is rebuilt from the *)
(* milliseconds ms of the service so that encoding it again gives exactly ms, *)
(* for every integer ms, negative ones included; so GetEvent with the         *)
(* Timestamp and Ordinal of the returned Event finds the event.               *)
TimestampRoundTrip ==
    /\ last.op = "time.Unix" => last.dec.n = last.val.n
    /\ last.op = "UnixNano" =>
            /\ Abs(last.dec.n * NsPerMs) <= Abs(last.ts.ns)
            /\ Abs(last.ts.ns - last.dec.n * NsPerMs) < NsPerMs
    /\ (last.op = "AddEventWithTimestamp" /\ last.req # NoReq) =>
            /\ last.req.path[5] = Itoa(UnixMs(last.ts))
            /\ last.err = NoErr => UnixMs(last.ret.Timestamp) = UnixMs(last.ts)
    /\ (last.op \in {"AddEvent", "AddEventWithTimestamp", "UpdateEvent", "GetEvent"}
        /\ last.err = NoErr) =>
            /\ \E e \in events :
                    /\ e.key = last.ret.Key
                    /\ e.ord = last.ret.Ordinal
                    /\ e.ts = UnixMs(last.ret.Timestamp)
                    /\ last.ret.Timestamp = Time(e.ts * NsPerMs)
            /\ GetEventGives(SrvState, last.ret)
            /\ GetEvent(last.ret.Key, last.ret.Type, last.ret.Timestamp,
                        last.ret.Ordinal, "nil", "none").ret.Ref = last.ret.Ref

\* The same for the milliseconds whose nanoseconds an int64 holds.
TimestampRoundTripInRange ==
    (last.op = "time.Unix" /\ Abs(last.val.n) <= LastMs) => last.dec.n = last.val.n

-----------------------------------------------------------------------------
(* The Clients of a process. A Client is made by NewClient or by the          *)
(* deprecated NewClientWithTransport; the caller may set its HTTPClient       *)
(* field; every request a Client sends goes through doRequest, which picks    *)
(* the User-Agent header by the Client's `deprecated` field.                  *)

ClientIds == {"c1", "c2"}
userAgent == "gorc/3 (go)"
userAgentDeprecated == "gorc/3 (go) [deprecated]"

NewClient(authToken) ==
    [APIHost |-> DefaultAPIHost, HTTPClient |-> Nil, authToken |-> authToken,
     deprecated |-> 0]

NewClientWithTransport(authToken, transport) ==
    [NewClient(authToken) EXCEPT !.HTTPClient = [Transport |-> transport],
                                 !.deprecated = 1]

\* Variant of the choice of the header with a plausible defect: the flag is
\* one for the whole process.
UserAgentOfProcess(c) ==
    IF \A d \in ClientIds : clients.made[d] = Nil \/ clients.made[d].deprecated = 0
    THEN userAgent ELSE userAgentDeprecated

\* if atomic.LoadInt32(&c.deprecated) == 0 { ... userAgent } else
\* { ... userAgentDeprecated }
UserAgentOf(c) ==
    IF clients.made[c].deprecated = 0 THEN userAgent ELSE userAgentDeprecated

ClientFrame == <<kv, events, nextRef, links, last, it, opts, fetches, yielded, stops, srv,
                 wire, apiHost, px, thr>>

DoNewClient ==
    \E c \in ClientIds :
        /\ clients.made[c] = Nil
        /\ clients' = [clients EXCEPT !.made[c] = NewClient("token"),
                                      !.via[c] = "NewClient"]
        /\ UNCHANGED ClientFrame

DoNewClientWithTransport ==
    \E c \in ClientIds :
        /\ clients.made[c] = Nil
        /\ clients' = [clients EXCEPT !.made[c] = NewClientWithTransport("token", "t"),
                                      !.via[c] = "NewClientWithTransport"]
        /\ UNCHANGED ClientFrame

\* client.HTTPClient = &http.Client{...}: what the deprecated function is
\* replaced by
DoSetHTTPClient ==
    \E c \in ClientIds :
        /\ clients.made[c] # Nil
        /\ clients.made[c].HTTPClient = Nil
        /\ clients' = [clients EXCEPT !.made[c].HTTPClient = [Transport |-> "t"]]
        /\ UNCHANGED ClientFrame

\* Any call on the Client: doRequest builds the request and sends it.
DoClientRequest ==
    \E c \in ClientIds :
        /\ clients.made[c] # Nil
        /\ Len(clients.reqs) < MaxRequests
        /\ clients' = [clients EXCEPT
                          !.reqs = Append(@, [client |-> c, UserAgent |-> UserAgentOf(c)])]
        /\ UNCHANGED ClientFrame

InitClients ==
    /\ kv = [k \in Keys |-> <<>>]
    /\ events = {}
    /\ nextRef = 1
    /\ last = NoCall
    /\ it = NoIterator
    /\ opts = Nil
    /\ fetches = <<>>
    /\ yielded = <<>>
    /\ stops = 0
    /\ srv = "more"
    /\ wire = NoWire
    /\ apiHost = DefaultAPIHost
    /\ px = <<>>
    /\ thr = <<>>
    /\ clients = [made |-> [c \in ClientIds |-> Nil], via |-> [c \in ClientIds |-> ""],
                  reqs |-> <<>>]
    /\ links = {}

NextClients ==
    \/ DoNewClient
    \/ DoNewClientWithTransport
    \/ DoSetHTTPClient
    \/ DoClientRequest

SpecClients == InitClients /\ [][NextClients]_vars

(* C22: every request of a Client that was obtained from the deprecated       *)
(* NewClientWithTransport carries the "[deprecated]" User-Agent, and every    *)
(* request of a Client on which no deprecated function was used carries the   *)
(* plain one, whatever the other Clients of the process have done.            *)
AgentFollowsItsClient ==
    \A j \in 1..Len(clients.reqs) :
        clients.reqs[j].UserAgent =
            IF clients.via[clients.reqs[j].client] = "NewClientWithTransport"
            THEN userAgentDeprecated ELSE userAgent

PlainBesideDeprecatedWitness ==
    /\ Len(clients.reqs) = 3
    /\ clients.via[clients.reqs[1].client] = "NewClientWithTransport"
    /\ clients.reqs[1].UserAgent = userAgentDeprecated
    /\ clients.via[clients.reqs[2].client] = "NewClient"
    /\ clients.reqs[2].UserAgent = userAgent
    /\ clients.made[clients.reqs[2].client].HTTPClient # Nil
    /\ clients.reqs[3] = clients.reqs[1]

-----------------------------------------------------------------------------
(* The graph calls against the service: Link and Unlink between the items of *)
(* the collection, then one traversal with GetLinks that Next walks to its   *)
(* end. The relations stay as they are while the traversal runs.             *)

Kinds == {LinkKind, "kind2"}
KindSeqs == {<<a>> : a \in Kinds} \cup {<<a, b>> : a \in Kinds, b \in Kinds}
GetLinksQueries == {[Limit |-> l] : l \in 0..1}

GraphLink ==
    \E k \in Keys, kind \in Kinds, to \in Keys, f \in DelFaults :
        /\ it = NoIterator
        /\ Cardinality(links) < MaxLinked
        /\ Commit("Link", k, <<kind, to>>, NoVal, "nil", Nil, f,
                  Link(k, kind, CollName, to, f))

GraphUnlink ==
    \E k \in Keys, kind \in Kinds, to \in Keys, f \in DelFaults :
        /\ it = NoIterator
        /\ <<k, kind, to>> \in links
        /\ Commit("Unlink", k, <<kind, to>>, NoVal, "nil", Nil, f,
                  Unlink(k, kind, CollName, to, f))

GraphGetLinks ==
    \E k \in Keys, o \in GetLinksQueries \cup {Nil}, ks \in KindSeqs :
        /\ it = NoIterator
        /\ last = NoCall
        /\ it' = GetLinks(k, o, ks)
        /\ opts' = [op |-> "GetLinks", key |-> k, typ |-> "", query |-> o, kinds |-> ks]
        /\ UNCHANGED <<last, fetches, yielded, stops>>
        /\ UNCHANGED StoreVars

InitGraph ==
    /\ kv = ListedKv
    /\ events = {}
    /\ nextRef = Len(KeySeq) + 1
    /\ last = NoCall
    /\ it = NoIterator
    /\ opts = Nil
    /\ fetches = <<>>
    /\ yielded = <<>>
    /\ stops = 0
    /\ srv \in Policies
    /\ wire = NoWire
    /\ apiHost = DefaultAPIHost
    /\ px = <<>>
    /\ thr = <<>>
    /\ clients = <<>>
    /\ links = {}

NextGraph ==
    \/ GraphLink
    \/ GraphUnlink
    \/ GraphGetLinks
    \/ DoNext
    \/ Discard

SpecGraph == InitGraph /\ [][NextGraph]_vars

\* The items a traversal has yielded, and the items its kinds lead to.
YieldedKeys == {yielded[j].Key : j \in 1..Len(yielded)}
LinkedFrom(a, kinds) == Reached(SrvState, {a}, kinds)
Traversed == it # NoIterator /\ Exhausted /\ Undisturbed

(* C21: after Link(a, kind, coll, b) has succeeded the relation is stored,    *)
(* after Unlink(a, kind, coll, b) has succeeded it is gone; a traversal with  *)
(* GetLinks(a, kind1, kind2, ...) that has run to its end has yielded exactly *)
(* the items reached from a by following the kinds in the given order, each   *)
(* of them once, and ends with Iterator.Error nil.                            *)
LinksAreTraversed ==
    /\ (last.op = "Link" /\ last.err = NoErr) =>
            last.h[2] \in LinkedFrom(last.key, <<last.h[1]>>)
    /\ (last.op = "Unlink" /\ last.err = NoErr) =>
            last.h[2] \notin LinkedFrom(last.key, <<last.h[1]>>)
    /\ Traversed =>
            /\ it.Error = NoErr
            /\ YieldedKeys = LinkedFrom(opts.key, opts.kinds)
            /\ Len(yielded) = Cardinality(YieldedKeys)
            /\ \A j \in 1..Len(yielded) : yielded[j].Collection = CollName

\* A traversal over two kinds has ended on an item that the first kind alone
\* does not lead to.
TwoHopWitness ==
    /\ Traversed
    /\ Len(opts.kinds) = 2
    /\ YieldedKeys # {}
    /\ YieldedKeys # LinkedFrom(opts.key, <<opts.kinds[1]>>)

====
